---------------------------- MODULE Spec2Model ----------------------------
(***************************************************************************)
(* A model of the BLDC firmware core: the runner loop (runner.rs), the     *)
(* supervisor Bldc (bldc.rs), the calibration, demo and recovery modes     *)
(* (modes/*.rs), the gate driver (drv_8305.rs), the three-phase magnet     *)
(* controller (magnet_controller.rs) and the encoder (position_sensor.rs). *)
(*                                                                         *)
(* f32 quantities are kept in fixed point.  Angles live on a grid of       *)
(* PI2 = 12 units per turn (30 degrees a unit), power scales on a grid of  *)
(* POWER_ONE units per 1.0 and duty cycles on a grid of DUTY_ONE units per *)
(* 1.0; the cosine is a table over the angle grid.  The ramp rates, the    *)
(* settle window and the tolerance are the source's constants expressed    *)
(* on those grids, keeping their order relations (SPEED < MAX_TURN, SPEED  *)
(* does not divide MAX_TURN, ACCEL < MAX, MAX_DEVIATION < SPEED).          *)
(***************************************************************************)
EXTENDS Integers, Sequences, FiniteSets

VARIABLES
  pc,                \* runner.rs do_loop: which call comes next
  recovery_mode,     \* Bldc.recovery_mode: TRUE is Some(RecoveryMode {})
  mode,              \* Bldc.mode: the Mode variant with its fields
  drv_8305,          \* Bldc.drv_8305: gate line, chip select, last_command
  magnet_controller, \* Bldc.magnet_controller: stored (phase, power), duties
  position_sensor,   \* Bldc.position_sensor: offset, chip select, last_command
  out,               \* host diagnostic lines printed by the last call
  obs,               \* what the last call did: snapshot, commands, result
  safemode_calls,    \* how many times do_loop has called safemode()
  settler,           \* a Settler on its own (component specification)
  ingested,          \* every sample handed to that Settler since Settler::new
  settle_state,      \* what the last add_sample on that Settler returned
  hardware,          \* the timer, channels, SPI blocks and pins the wrappers own
  shutdown_calls     \* how many times do_loop has called shutdown()

vars == <<pc, recovery_mode, mode, drv_8305, magnet_controller,
          position_sensor, out, obs, safemode_calls, settler, ingested,
          settle_state, hardware, shutdown_calls>>

----------------------------------------------------------------------------
(* math.rs and the constants of magnet_controller.rs, modes/*.rs           *)

PI == 6
PI2 == PI * 2
PI1_2 == PI \div 2
PI2_3 == PI2 \div 3
PI4_3 == PI2_3 * 2

\* 1f32 as a power scale, and 1.0 as a duty cycle
POWER_ONE == 10
DUTY_ONE == 1000

\* modes/calibration.rs (NUM_SAMPLES is 500 in the source)
MAX_DEVIATION == 1
NUM_SAMPLES == 3
SPEED == 5
MAX_TURN == PI2 * 2
CAL_POWER == 1

\* modes/demo.rs
MIN == 0
MAX == 2
ACCEL == 1

\* main.rs, position_sensor.rs, drv_8305.rs
NUM_MAGNET_PAIRS == 3
POS_MAX_U16 == 16383
U16_MAX == 65535

\* How many samples beyond NUM_SAMPLES a Settler is fed before the model stops
ExtraSamples == 2

Abs(x) == IF x < 0 THEN -x ELSE x

\* libm::fmodf on the grid: the result has the sign of x
Fmodf(x, m) == IF x >= 0 THEN x % m ELSE -((-x) % m)

norm_rads(rads) == Fmodf(PI2 + Fmodf(rads, PI2), PI2)

\* libm::cosf over the angle grid, in DUTY_ONE units
CosTable == <<1000, 866, 500, 0, -500, -866, -1000, -866, -500, 0, 500, 866>>

cosf(a) == CosTable[(a % PI2) + 1]

----------------------------------------------------------------------------
(* SPI frames: what the peripheral layer gives back for one send()         *)

\* wait_for_not_busy() succeeded and spi.read() returned reply, or it failed
Frame(ok, reply) == [ok |-> ok, reply |-> reply]

BusyError == Frame(FALSE, 0)

FramesOf(replies) == {BusyError} \cup {Frame(TRUE, w) : w \in replies}

\* The frames one read() consumes: one when the command was the last one
\* sent, two (prime, then capture) otherwise; a failed prime ends the read
\* and its second frame is never sent
ReadFrames(dev, command, replies) ==
  IF dev.last_command = command
  THEN {<<f>> : f \in FramesOf(replies)}
  ELSE {<<BusyError, BusyError>>} \cup
       {<<Frame(TRUE, p), f>> : p \in {0, U16_MAX}, f \in FramesOf(replies)}

Nop == <<"Nop">>
Read(rc) == <<"Read", rc>>

----------------------------------------------------------------------------
(* drv_8305.rs                                                             *)

\* Replies to a Warnings read: clear, Overtemp, Fault + TempOver135C, an
\* unassigned bit alone (bit 9), and the all-ones reply of an offline driver
WarningReplies == {0, 1, 1026, 512, U16_MAX}

WarningFlag ==
  [Overtemp |-> 1, TempOver135C |-> 2, TempOver125C |-> 4, TempOver105C |-> 8,
   ChargePumpUndervolt |-> 16, VdsOvercurrent |-> 32, PvddOvervolt |-> 64,
   PvddUndervolt |-> 128, TempOver175C |-> 256, Fault |-> 1024]

Drv8305New == [en_gate |-> FALSE, csn |-> TRUE, spi_on |-> FALSE,
               last_command |-> Nop]

Drv8305Start(d) == [d EXCEPT !.csn = TRUE, !.spi_on = TRUE]

enable_gate(d) == [d EXCEPT !.en_gate = TRUE]

disable_gate(d) == [d EXCEPT !.en_gate = FALSE]

\* send(): chip select low, write, busy-wait, chip select high, remember
send(dev, command, frame) ==
  IF frame.ok
  THEN [dev |-> [dev EXCEPT !.csn = TRUE, !.last_command = command],
        ok |-> TRUE, val |-> frame.reply, wrote |-> <<command>>]
  ELSE [dev |-> [dev EXCEPT !.csn = FALSE], ok |-> FALSE, val |-> 0,
        wrote |-> <<command>>]

\* What a second send returned, with the words both sends wrote to the bus
Chained(first, second) == [second EXCEPT !.wrote = first.wrote \o @]

\* The second send of a read() whose priming send returned prime
Capture(prime, command, frame) ==
  IF prime.ok THEN Chained(prime, send(prime.dev, command, frame)) ELSE prime

\* A read that primes every time, against which C14 is tested
readAlwaysPrimes(dev, read_command, frames) ==
  Capture(send(dev, Read(read_command), frames[1]), Read(read_command),
          frames[Len(frames)])

\* A read that never primes, against which C13 is tested
readUnprimed(dev, read_command, frames) ==
  send(dev, Read(read_command), frames[Len(frames)])

\* read(): prime the response pipeline unless the same read was sent last
read(dev, read_command, frames) ==
  IF dev.last_command = Read(read_command)
  THEN send(dev, Read(read_command), frames[1])
  ELSE Capture(send(dev, Read(read_command), frames[1]), Read(read_command),
               frames[2])

\* A decode that takes the all-ones word for a flag word, against which C15
\* is tested
WarningsDecodeAnyWord(data) == [ok |-> TRUE, data |-> data]

WarningsDecode(data) ==
  IF data = U16_MAX THEN [ok |-> FALSE, data |-> data]
  ELSE [ok |-> TRUE, data |-> data]

WarningsOk(w) == w.data = 0

WarningsHas(w, flag) == (w.data \div flag) % 2 = 1

OvercurrentFaultFlag ==
  [SenseA |-> 1, SenseB |-> 2, SenseC |-> 4, MosfetLowC |-> 32,
   MosfetHighC |-> 64, MosfetLowB |-> 128, MosfetHighB |-> 256,
   MosfetLowA |-> 512, MosfetHighA |-> 1024]

OvercurrentFaultsDecode(data) ==
  IF data = U16_MAX THEN [ok |-> FALSE, data |-> data]
  ELSE [ok |-> TRUE, data |-> data]

OvercurrentFaultsOk(w) == w.data = 0

OvercurrentFaultsHas(w, flag) == (w.data \div flag) % 2 = 1

IcFaultFlag ==
  [HighSideChargePumpOvervoltAbs |-> 1, HighSideChargePumpOvervolt |-> 2,
   HighSideChargePumpUndervolt2 |-> 4, LowSideGateSupply |-> 16,
   AvddUndervolt |-> 32, VregUndervolt |-> 64, Overtemp |-> 256,
   Watchdog |-> 512, PvddUndervolt2 |-> 1024]

IcFaultsDecode(data) ==
  IF data = U16_MAX THEN [ok |-> FALSE, data |-> data]
  ELSE [ok |-> TRUE, data |-> data]

IcFaultsOk(w) == w.data = 0

IcFaultsHas(w, flag) == (w.data \div flag) % 2 = 1

GateDriverFaultFlag ==
  [LowMosfetC |-> 32, HighMosfetC |-> 64, LowMosfetB |-> 128,
   HighMosfetB |-> 256, LowMosfetA |-> 512, HighMosfetA |-> 1024]

GateDriverFaultsDecode(data) ==
  IF data = U16_MAX THEN [ok |-> FALSE, data |-> data]
  ELSE [ok |-> TRUE, data |-> data]

GateDriverFaultsOk(w) == w.data = 0

GateDriverFaultsHas(w, flag) == (w.data \div flag) % 2 = 1

\* Warnings::decode applied to what read() returned
DecodeRead(r) ==
  IF r.ok
  THEN [dev |-> r.dev, ok |-> WarningsDecode(r.val).ok,
        warnings |-> WarningsDecode(r.val)]
  ELSE [dev |-> r.dev, ok |-> FALSE, warnings |-> WarningsDecode(U16_MAX)]

read_warnings(d, frames) == DecodeRead(read(d, "Warnings", frames))

----------------------------------------------------------------------------
(* magnet_controller.rs                                                    *)

\* MagnetController::new: the three duty cycles are set to 0
MagnetControllerNew ==
  [phase_angle |-> 0, power_scale |-> 0,
   ch_u_pwm |-> 0, ch_v_pwm |-> 0, ch_w_pwm |-> 0, timer_on |-> FALSE]

phase_angle_to_duty_cycle(phase_angle) == cosf(phase_angle) \div 2 + DUTY_ONE \div 2

\* A clamp with no upper limit, against which C6 is tested
ClampPowerBelowOnly(power_scale) ==
  IF power_scale < 0 THEN 0 ELSE power_scale

ClampPower(power_scale) ==
  IF power_scale < 0 THEN 0
  ELSE IF power_scale > POWER_ONE THEN POWER_ONE
  ELSE power_scale

\* Writes that store the angle and the power before the timer is asked,
\* against which C8 is tested
WriteDutiesStoreFirst(mc, pa, ps, u, v, w, rej) ==
  IF rej = 1
  THEN [mc |-> [mc EXCEPT !.phase_angle = pa, !.power_scale = ps],
        ok |-> FALSE]
  ELSE IF rej = 2
    THEN [mc |-> [mc EXCEPT !.ch_u_pwm = u * ps,
                            !.phase_angle = pa, !.power_scale = ps],
          ok |-> FALSE]
  ELSE IF rej = 3
    THEN [mc |-> [mc EXCEPT !.ch_u_pwm = u * ps, !.ch_v_pwm = v * ps,
                            !.phase_angle = pa, !.power_scale = ps],
          ok |-> FALSE]
  ELSE [mc |-> [mc EXCEPT !.ch_u_pwm = u * ps, !.ch_v_pwm = v * ps,
                          !.ch_w_pwm = w * ps,
                          !.phase_angle = pa, !.power_scale = ps],
        ok |-> TRUE]

\* The three set_duty_cycle calls and the two stores that follow them.
\* rej names the write the timer rejects: 0 none, 1 u, 2 v, 3 w.  A rejected
\* write leaves its compare register as it was and returns the error.
WriteDuties(mc, pa, ps, u, v, w, rej) ==
  IF rej = 1 THEN [mc |-> mc, ok |-> FALSE]
  ELSE IF rej = 2
    THEN [mc |-> [mc EXCEPT !.ch_u_pwm = u * ps], ok |-> FALSE]
  ELSE IF rej = 3
    THEN [mc |-> [mc EXCEPT !.ch_u_pwm = u * ps, !.ch_v_pwm = v * ps],
          ok |-> FALSE]
  ELSE [mc |-> [mc EXCEPT !.ch_u_pwm = u * ps, !.ch_v_pwm = v * ps,
                          !.ch_w_pwm = w * ps,
                          !.phase_angle = pa, !.power_scale = ps],
        ok |-> TRUE]

\* The duty cycles of the three channels for the normalized angle pa
PhaseDuties(mc, pa, ps, rej) ==
  WriteDuties(mc, pa, ps,
              phase_angle_to_duty_cycle(pa),
              phase_angle_to_duty_cycle(norm_rads(pa - PI2_3)),
              phase_angle_to_duty_cycle(norm_rads(pa - PI4_3)),
              rej)

set_phase_angle_and_power(mc, phase_angle, power_scale, rej) ==
  PhaseDuties(mc, norm_rads(phase_angle), ClampPower(power_scale), rej)

set_power_scale(mc, power_scale, rej) ==
  set_phase_angle_and_power(mc, mc.phase_angle, power_scale, rej)

set_phase_angle(mc, phase_angle, rej) ==
  set_phase_angle_and_power(mc, norm_rads(phase_angle), mc.power_scale, rej)

MagnetControllerStart(mc) == [mc EXCEPT !.timer_on = TRUE]

----------------------------------------------------------------------------
(* position_sensor.rs                                                      *)

\* Replies to an Angle read: three positions, one with the two high bits
\* set, and the all-ones reply
AngleReplies == {0, 1366, 2731, 16384 + 1366, U16_MAX}

PositionSensorNew(num_magnet_pairs) ==
  [num_magnet_pairs |-> num_magnet_pairs, offset |-> 0, csn |-> TRUE,
   spi_on |-> FALSE, last_command |-> Nop]

PositionSensorStart(p) == [p EXCEPT !.csn = TRUE, !.spi_on = TRUE]

raw_to_rads(raw) == (raw * PI2) \div POS_MAX_U16

set_offset(p, offset) == [p EXCEPT !.offset = offset]

\* The angle a successful Angle read yields: mask, scale, offset, normalize
AngleOf(r) ==
  IF r.ok
  THEN [r EXCEPT !.val = norm_rads(raw_to_rads(@ % (POS_MAX_U16 + 1))
                                   - r.dev.offset)]
  ELSE r

read_absolute_angle(p, frames) == AngleOf(read(p, "Angle", frames))

\* (abs % (PI2 / num_magnet_pairs)) * num_magnet_pairs
PhaseOf(r) ==
  IF r.ok
  THEN [r EXCEPT !.val = Fmodf(@, PI2 \div r.dev.num_magnet_pairs)
                           * r.dev.num_magnet_pairs]
  ELSE r

read_phase_angle(p, frames) == PhaseOf(read_absolute_angle(p, frames))

----------------------------------------------------------------------------
(* modes/calibration.rs: Settler                                           *)

NotSettled == [settled |-> FALSE, mean |-> 0]
Settled(mean) == [settled |-> TRUE, mean |-> mean]

SettlerNewValue == [samples_collected |-> 0,
                    samples |-> [i \in 1..NUM_SAMPLES |-> 0]]

\* for i in 0..NUM_SAMPLES - 1 { samples[i + 1] = samples[i] }, in index
\* order (the sequence is 1-based: i runs over 1..NUM_SAMPLES - 1)
RECURSIVE ShiftSamples(_, _)
ShiftSamples(samples, i) ==
  IF i > NUM_SAMPLES - 1 THEN samples
  ELSE ShiftSamples([samples EXCEPT ![i + 1] = samples[i]], i + 1)

RECURSIVE SumSamples(_, _)
SumSamples(samples, i) ==
  IF i > Len(samples) THEN 0 ELSE samples[i] + SumSamples(samples, i + 1)

\* Whether every sample is within MAX_DEVIATION of the mean sum / n.  Both
\* sides are taken n-fold, so that the comparison is exact on the grid.
WithinDeviation(samples, sum) ==
  \A i \in 1..Len(samples) :
    Abs(sum - Len(samples) * samples[i]) <= Len(samples) * MAX_DEVIATION

\* A test that starts one sample early, against which C10 is tested
SettleTestOneEarly(collected, samples, sum) ==
  [settler |-> [samples_collected |-> collected, samples |-> samples],
   state |-> IF collected >= NUM_SAMPLES - 1 /\ WithinDeviation(samples, sum)
             THEN Settled(sum \div Len(samples))
             ELSE NotSettled]

\* The test add_sample makes once the samples are stored and counted
SettleTest(collected, samples, sum) ==
  [settler |-> [samples_collected |-> collected, samples |-> samples],
   state |-> IF collected >= NUM_SAMPLES /\ WithinDeviation(samples, sum)
             THEN Settled(sum \div Len(samples))
             ELSE NotSettled]

\* The buffer after the shift loop and samples[0] = sample
StoreSample(collected, samples) ==
  SettleTest(collected, samples, SumSamples(samples, 1))

\* Settler::add_sample: the new Settler and the SettleState returned
add_sample(st, sample) ==
  StoreSample(st.samples_collected + 1,
              [ShiftSamples(st.samples, 1) EXCEPT ![1] = sample])

----------------------------------------------------------------------------
(* The peripherals a mode step borrows, with what the step printed and     *)
(* which magnet commands it issued (each with the gate level at the time)  *)

Env(d, mc, p) == [drv_8305 |-> d, magnet_controller |-> mc,
                  position_sensor |-> p, out |-> <<>>, commands |-> <<>>]

println(e, line) == [e EXCEPT !.out = Append(@, line)]

\* Install the result of a magnet controller call and note the command
Commanded(e, res) ==
  [e EXCEPT !.magnet_controller = res.mc,
            !.commands = Append(@, [gate |-> e.drv_8305.en_gate,
                                    ok |-> res.ok])]

\* The encoder as a read left it
Sensed(e, r) == [e EXCEPT !.position_sensor = r.dev]

Result(ok, m, e) == [ok |-> ok, mode |-> m, env |-> e]

----------------------------------------------------------------------------
(* modes/calibration.rs: CalibrationMode                                   *)

CalibrationModeNew ==
  [tag |-> "Calibrate", phase |-> "Start", zero |-> 0, forward_extent |-> 0,
   backward_extent |-> 0, settler |-> SettlerNewValue,
   cumulative_phase_angle |-> 0]

is_done(cm) == cm.phase = "Done"

\* A Start that moves on to ForwardTurn without settling, against which
\* C11 is tested
CalStartCommandSkips(cm, e, rej) ==
  LET Then(c) ==
        Result(c.ok, IF c.ok THEN [cm EXCEPT !.phase = "ForwardTurn"] ELSE cm,
               Commanded(e, c))
  IN Then(set_phase_angle_and_power(e.magnet_controller, 0, CAL_POWER, rej))

\* Phase::Start, after the gate is enabled: command (0, 0.1), then Settle
CalStartCommand(cm, e, rej) ==
  LET Then(c) ==
        Result(c.ok, IF c.ok THEN [cm EXCEPT !.phase = "Settle"] ELSE cm,
               Commanded(e, c))
  IN Then(set_phase_angle_and_power(e.magnet_controller, 0, CAL_POWER, rej))

\* Phase::Start
CalStart(cm, e, in) ==
  CalStartCommand(cm, [e EXCEPT !.drv_8305 = enable_gate(Drv8305Start(@))],
                  in.rej[1])

\* Phase::Settle once the sample is read and added
CalSettleOn(cm, e, r, a) ==
  IF ~r.ok THEN Result(FALSE, cm, e)
  ELSE IF a.state.settled
    THEN Result(TRUE,
                [cm EXCEPT !.settler = a.settler, !.zero = a.state.mean,
                           !.phase = "ForwardTurn"],
                println(println([e EXCEPT !.position_sensor =
                                   set_offset(@, a.state.mean)],
                                "SET OFFSET"),
                        "Found zero at {} radians"))
  ELSE Result(TRUE, [cm EXCEPT !.settler = a.settler], e)

\* Phase::Settle
CalSettle(cm, e, in) ==
  LET Then(r) == CalSettleOn(cm, Sensed(e, r), r, add_sample(cm.settler, r.val))
  IN Then(read_absolute_angle(e.position_sensor, in.frames))

\* A ForwardTurn that enters ForwardSettle with the Settler of the Settle
\* phase, against which C21 is tested
CalForwardPinKeepsSettler(cm, e, rej) ==
  LET Then(c) ==
        Result(c.ok,
               IF c.ok THEN [cm EXCEPT !.phase = "ForwardSettle"] ELSE cm,
               Commanded(e, c))
  IN Then(set_phase_angle(e.magnet_controller, MAX_TURN, rej))

\* Phase::ForwardTurn at MAX_TURN: pin the angle, reset the Settler
CalForwardPin(cm, e, rej) ==
  LET Then(c) ==
        Result(c.ok,
               IF c.ok THEN [cm EXCEPT !.settler = SettlerNewValue,
                                       !.phase = "ForwardSettle"]
               ELSE cm,
               Commanded(e, c))
  IN Then(set_phase_angle(e.magnet_controller, MAX_TURN, rej))

\* Phase::ForwardTurn once cumulative_phase_angle is advanced
CalForwardCommand(cm, e, in) ==
  LET Then(c) ==
        IF ~c.ok THEN Result(FALSE, cm, Commanded(e, c))
        ELSE IF cm.cumulative_phase_angle >= MAX_TURN
          THEN CalForwardPin(cm, Commanded(e, c), in.rej[2])
        ELSE Result(TRUE, cm, Commanded(e, c))
  IN Then(set_phase_angle(e.magnet_controller, cm.cumulative_phase_angle,
                          in.rej[1]))

\* Phase::ForwardTurn
CalForwardTurn(cm, e, in) ==
  CalForwardCommand([cm EXCEPT !.cumulative_phase_angle = @ + SPEED], e, in)

\* A ForwardSettle that moves the encoder offset to the forward extent,
\* against which C20 is tested
CalForwardSettleOnOffsets(cm, e, r, a) ==
  IF ~r.ok THEN Result(FALSE, cm, e)
  ELSE IF a.state.settled
    THEN Result(TRUE,
                [cm EXCEPT !.settler = a.settler,
                           !.forward_extent = a.state.mean,
                           !.phase = "BackwardTurn"],
                println([e EXCEPT !.position_sensor =
                           set_offset(@, a.state.mean)],
                        "Found forward extent at {} radians"))
  ELSE Result(TRUE, [cm EXCEPT !.settler = a.settler], e)

\* Phase::ForwardSettle once the sample is read and added
CalForwardSettleOn(cm, e, r, a) ==
  IF ~r.ok THEN Result(FALSE, cm, e)
  ELSE IF a.state.settled
    THEN Result(TRUE,
                [cm EXCEPT !.settler = a.settler,
                           !.forward_extent = a.state.mean,
                           !.phase = "BackwardTurn"],
                println(e, "Found forward extent at {} radians"))
  ELSE Result(TRUE, [cm EXCEPT !.settler = a.settler], e)

\* Phase::ForwardSettle
CalForwardSettle(cm, e, in) ==
  LET Then(r) ==
        CalForwardSettleOn(cm, Sensed(e, r), r, add_sample(cm.settler, r.val))
  IN Then(read_absolute_angle(e.position_sensor, in.frames))

\* A BackwardTurn that commands the angle but keeps cumulative_phase_angle
\* where it was, against which C25 is tested
CalBackwardCommandHolds(cm, e, rej) ==
  LET Then(c) ==
        Result(c.ok, [cm EXCEPT !.cumulative_phase_angle = @ + SPEED],
               Commanded(e, c))
  IN Then(set_phase_angle(e.magnet_controller, cm.cumulative_phase_angle, rej))

\* Phase::BackwardTurn once cumulative_phase_angle is moved back
CalBackwardCommand(cm, e, rej) ==
  LET Then(c) ==
        Result(c.ok,
               IF c.ok /\ cm.cumulative_phase_angle <= 0
               THEN [cm EXCEPT !.settler = SettlerNewValue,
                               !.phase = "BackwardSettle"]
               ELSE cm,
               Commanded(e, c))
  IN Then(set_phase_angle(e.magnet_controller, cm.cumulative_phase_angle, rej))

\* Phase::BackwardTurn
CalBackwardTurn(cm, e, in) ==
  CalBackwardCommand([cm EXCEPT !.cumulative_phase_angle = @ - SPEED], e,
                     in.rej[1])

\* Phase::BackwardSettle when settled: the phase is Done before the command
\* (0, 0) is issued; the gate is disabled only if the command succeeded
CalBackwardDone(cm, e, rej) ==
  LET Then(c) ==
        Result(c.ok, cm,
               IF c.ok
               THEN [Commanded(e, c) EXCEPT !.drv_8305 = disable_gate(@)]
               ELSE Commanded(e, c))
  IN Then(set_phase_angle_and_power(e.magnet_controller, 0, 0, rej))

\* Phase::BackwardSettle once the sample is read and added
CalBackwardSettleOn(cm, e, r, a, rej) ==
  IF ~r.ok THEN Result(FALSE, cm, e)
  ELSE IF a.state.settled
    THEN CalBackwardDone([cm EXCEPT !.settler = a.settler,
                                    !.backward_extent = a.state.mean,
                                    !.phase = "Done"],
                         println(e, "Found backward extent at {} radians"),
                         rej)
  ELSE Result(TRUE, [cm EXCEPT !.settler = a.settler], e)

\* Phase::BackwardSettle
CalBackwardSettle(cm, e, in) ==
  LET Then(r) ==
        CalBackwardSettleOn(cm, Sensed(e, r), r,
                            add_sample(cm.settler, r.val), in.rej[1])
  IN Then(read_absolute_angle(e.position_sensor, in.frames))

\* CalibrationMode::step
CalibrationStep(cm, e, in) ==
  CASE cm.phase = "Start" -> CalStart(cm, e, in)
    [] cm.phase = "Settle" -> CalSettle(cm, e, in)
    [] cm.phase = "ForwardTurn" -> CalForwardTurn(cm, e, in)
    [] cm.phase = "ForwardSettle" -> CalForwardSettle(cm, e, in)
    [] cm.phase = "BackwardTurn" -> CalBackwardTurn(cm, e, in)
    [] cm.phase = "BackwardSettle" -> CalBackwardSettle(cm, e, in)
    [] OTHER -> Result(TRUE, cm, e)

----------------------------------------------------------------------------
(* modes/demo.rs and modes/recovery.rs                                     *)

\* DemoMode::new once the gate is enabled: command (0, 0)
DemoModeNewCommand(e, rej) ==
  LET Then(c) ==
        Result(c.ok,
               [tag |-> "Demo", accel |-> ACCEL, power |-> MIN,
                angle |-> PI1_2],
               Commanded(e, c))
  IN Then(set_phase_angle_and_power(e.magnet_controller, 0, 0, rej))

\* DemoMode::new
DemoModeNew(e, rej) ==
  DemoModeNewCommand([e EXCEPT !.drv_8305 = enable_gate(@)], rej)

\* A ramp whose step still adds the accel it had before the flip, against
\* which C26 is tested
DemoRampTurnsLate(dm, accel) ==
  [dm EXCEPT !.accel = accel,
             !.angle = IF dm.power < MIN THEN -@ ELSE @,
             !.power = @ + dm.accel]

\* A ramp that flips angle whenever it flips accel, against which C24 is
\* tested
DemoRampFlipsAtBothEnds(dm, accel) ==
  [dm EXCEPT !.accel = accel,
             !.angle = IF accel # dm.accel THEN -@ ELSE @,
             !.power = @ + accel]

\* The ramp of DemoMode::step: flip accel outside [MIN, MAX], flip angle
\* below MIN, then power += accel
DemoRamp(dm, accel) ==
  [dm EXCEPT !.accel = accel,
             !.angle = IF dm.power < MIN THEN -@ ELSE @,
             !.power = @ + accel]

\* DemoMode::step once the phase angle is read and the ramp advanced
DemoCommand(dm, e, phase_pos, rej) ==
  LET Then(c) == Result(c.ok, dm, Commanded(e, c))
  IN Then(set_phase_angle_and_power(e.magnet_controller, phase_pos + dm.angle,
                                    dm.power, rej))

\* DemoMode::step
DemoStep(dm, e, in) ==
  LET Then(r) ==
        IF ~r.ok THEN Result(FALSE, dm, Sensed(e, r))
        ELSE DemoCommand(
               DemoRamp(dm, IF dm.power > MAX \/ dm.power < MIN
                            THEN -dm.accel ELSE dm.accel),
               Sensed(e, r), r.val, in.rej[1])
  IN Then(read_phase_angle(e.position_sensor, in.frames))

\* A recovery step that restarts the mode machine, against which C3 is
\* tested
RecoveryStepRestarts(m, e) == Result(TRUE, [tag |-> "Start"], e)

\* RecoveryMode::step
RecoveryStep(m, e) == Result(TRUE, m, e)

----------------------------------------------------------------------------
(* bldc.rs                                                                 *)

\* The ten println! of handle_drv_8305_errors, in program order
WarningLines ==
  << [flag |-> WarningFlag.Overtemp, text |-> "Overtemp"],
     [flag |-> WarningFlag.TempOver135C, text |-> "Temp over 135 C"],
     [flag |-> WarningFlag.TempOver125C, text |-> "Temp over 125 C"],
     [flag |-> WarningFlag.TempOver105C, text |-> "Temp over 105 C"],
     [flag |-> WarningFlag.ChargePumpUndervolt, text |-> "Charge pump undervolt"],
     [flag |-> WarningFlag.VdsOvercurrent, text |-> "VDS overcurrent"],
     [flag |-> WarningFlag.PvddOvervolt, text |-> "PVDD overvolt"],
     [flag |-> WarningFlag.PvddUndervolt, text |-> "PVDD undervolt"],
     [flag |-> WarningFlag.TempOver175C, text |-> "Temp over 175 C"],
     [flag |-> WarningFlag.Fault, text |-> "FAULT"] >>

\* The texts of the lines whose flag the snapshot has
LineTexts(hit) == [i \in 1..Len(hit) |-> hit[i].text]

\* A handler without the FAULT line, against which C18 is tested
PrintedWarningsNoFault(w) ==
  LineTexts(SelectSeq(WarningLines,
                      LAMBDA l : WarningsHas(w, l.flag)
                                   /\ l.flag # WarningFlag.Fault))

PrintedWarnings(w) ==
  LineTexts(SelectSeq(WarningLines, LAMBDA l : WarningsHas(w, l.flag)))

\* A handler that installs recovery but leaves the gate as it is, against
\* which C1 is tested
HandleWarningsGateKept(r, rm) ==
  IF ~r.ok
  THEN [ok |-> FALSE, drv_8305 |-> r.dev, recovery_mode |-> rm,
        out |-> <<>>, snapshot |-> -1]
  ELSE IF WarningsOk(r.warnings)
    THEN [ok |-> TRUE, drv_8305 |-> r.dev, recovery_mode |-> FALSE,
          out |-> <<>>, snapshot |-> r.warnings.data]
  ELSE [ok |-> TRUE, drv_8305 |-> r.dev,
        recovery_mode |-> TRUE, out |-> PrintedWarnings(r.warnings),
        snapshot |-> r.warnings.data]

\* handle_drv_8305_errors once read_warnings has returned r: the recovery
\* overlay and the gate (snapshot -1: the read or its decoding failed)
HandleWarnings(r, rm) ==
  IF ~r.ok
  THEN [ok |-> FALSE, drv_8305 |-> r.dev, recovery_mode |-> rm,
        out |-> <<>>, snapshot |-> -1]
  ELSE IF WarningsOk(r.warnings)
    THEN [ok |-> TRUE, drv_8305 |-> r.dev, recovery_mode |-> FALSE,
          out |-> <<>>, snapshot |-> r.warnings.data]
  ELSE [ok |-> TRUE, drv_8305 |-> disable_gate(r.dev),
        recovery_mode |-> TRUE, out |-> PrintedWarnings(r.warnings),
        snapshot |-> r.warnings.data]

\* Bldc::handle_drv_8305_errors
handle_drv_8305_errors(d, rm, frames) ==
  HandleWarnings(read_warnings(d, frames), rm)

ModeStart == [tag |-> "Start"]

\* A Calibrate arm that never looks at is_done, against which C23 is tested
CalibrateArmKeepsDone(c, rej) == c

\* Mode::Calibrate once calibration_mode.step has returned c: on is_done,
\* construct DemoMode and install it
CalibrateArm(c, rej) ==
  IF c.ok /\ is_done(c.mode)
  THEN LET Then(d) == IF d.ok THEN d ELSE Result(FALSE, c.mode, d.env)
       IN Then(DemoModeNew(c.env, rej))
  ELSE c

\* A match whose Start arm also steps the CalibrationMode it installs,
\* against which C19 is tested
DispatchModeStepsStart(m, e, in) ==
  CASE m.tag = "Start" ->
         CalibrateArm(CalibrationStep(CalibrationModeNew, e, in), in.rej[2])
    [] m.tag = "Calibrate" -> CalibrateArm(CalibrationStep(m, e, in), in.rej[2])
    [] OTHER -> DemoStep(m, e, in)

\* A match whose Demo arm starts calibration again, against which C27 is
\* tested
DispatchModeRecalibrates(m, e, in) ==
  CASE m.tag = "Start" -> Result(TRUE, CalibrationModeNew, e)
    [] m.tag = "Calibrate" -> CalibrateArm(CalibrationStep(m, e, in), in.rej[2])
    [] OTHER -> Result(TRUE, CalibrationModeNew, e)

\* The match on self.mode in Bldc::step
DispatchMode(m, e, in) ==
  CASE m.tag = "Start" -> Result(TRUE, CalibrationModeNew, e)
    [] m.tag = "Calibrate" -> CalibrateArm(CalibrationStep(m, e, in), in.rej[2])
    [] OTHER -> DemoStep(m, e, in)

\* The match on self.recovery_mode in Bldc::step
Dispatch(rm, m, e, in) ==
  IF rm THEN RecoveryStep(m, e) ELSE DispatchMode(m, e, in)

\* What one Bldc::step leaves behind, from the handler's result and the
\* dispatched step's result
StepResult(h, r, m) ==
  IF ~h.ok
  THEN [ok |-> FALSE, recovery_mode |-> h.recovery_mode, mode |-> m,
        drv_8305 |-> h.drv_8305, out |-> <<>>, snapshot |-> h.snapshot,
        mode_stepped |-> FALSE, dispatched |-> FALSE]
  ELSE [ok |-> r.ok, recovery_mode |-> h.recovery_mode, mode |-> r.mode,
        drv_8305 |-> r.env.drv_8305, out |-> h.out \o r.env.out,
        snapshot |-> h.snapshot, mode_stepped |-> ~h.recovery_mode,
        dispatched |-> TRUE,
        magnet_controller |-> r.env.magnet_controller,
        position_sensor |-> r.env.position_sensor,
        commands |-> r.env.commands]

\* Bldc::step after handle_drv_8305_errors has returned h
StepAfter(h, m, mc, p, in) ==
  StepResult(h, Dispatch(h.recovery_mode, m, Env(h.drv_8305, mc, p), in), m)

\* Bldc::step
step(d, rm, m, mc, p, frames, in) ==
  StepAfter(handle_drv_8305_errors(d, rm, frames), m, mc, p, in)

\* A safemode that zeroes the power but leaves the gate as it is, against
\* which C5 is tested
safemodeGateKept(mc, d, rej) ==
  [drv_8305 |-> d, res |-> set_power_scale(mc, 0, rej), gate |-> d.en_gate]

\* Bldc::safemode: set_power_scale(0).ok(), then disable_gate()
safemode(mc, d, rej) ==
  [drv_8305 |-> disable_gate(d), res |-> set_power_scale(mc, 0, rej),
   gate |-> d.en_gate]

\* Bldc::should_continue
should_continue == [ok |-> TRUE, val |-> TRUE]

----------------------------------------------------------------------------
(* return_hardware of the three wrappers and Bldc::shutdown                *)

\* What MagnetController::return_hardware, Drv8305::return_hardware and
\* PositionSensor::return_hardware give back, in program order; the
\* constructors take exactly these
MagnetReturns == <<"ch1", "ch2", "ch3", "tim1", "pe9", "pe11", "pe13", "pe8",
                   "pe10", "pe12">>

DrvReturns == <<"spi_i2s_2", "pb11", "pb12", "pb13", "pb14", "pb15">>

SensorReturns == <<"spi_i2s_1", "pa4", "pa5", "pa6", "pa7">>

Range(seq) == {seq[i] : i \in 1..Len(seq)}

Resources == Range(MagnetReturns) \cup Range(DrvReturns) \cup Range(SensorReturns)

\* The first n entries of a return list
Returned(seq, n) == {seq[i] : i \in 1..n}

\* MagnetController::stop
MagnetControllerStop(mc) == [mc EXCEPT !.timer_on = FALSE]

\* MagnetController::return_hardware; fail names the return that fails
\* (0: none)
MagnetReturnHardware(mc, hw, fail) ==
  [dev |-> MagnetControllerStop(mc),
   hardware |-> hw \ Returned(MagnetReturns,
                              IF fail = 0 THEN Len(MagnetReturns)
                              ELSE fail - 1),
   ok |-> fail = 0]

\* Drv8305::stop: the gate is disabled before the busy-wait that may fail
Drv8305Stop(d, busy_ok) ==
  IF busy_ok
  THEN [disable_gate(d) EXCEPT !.csn = TRUE, !.spi_on = FALSE]
  ELSE disable_gate(d)

\* Drv8305::return_hardware; fail 1 is the busy-wait of stop, fail k + 1 the
\* k-th return (0: none)
DrvReturnHardware(d, hw, fail) ==
  [dev |-> Drv8305Stop(d, fail # 1),
   hardware |-> hw \ Returned(DrvReturns,
                              IF fail = 0 THEN Len(DrvReturns)
                              ELSE IF fail = 1 THEN 0 ELSE fail - 2),
   ok |-> fail = 0]

\* PositionSensor::stop
PositionSensorStop(p, busy_ok) ==
  IF busy_ok THEN [p EXCEPT !.csn = TRUE, !.spi_on = FALSE] ELSE p

\* PositionSensor::return_hardware, with fail as for the driver
SensorReturnHardware(p, hw, fail) ==
  [dev |-> PositionSensorStop(p, fail # 1),
   hardware |-> hw \ Returned(SensorReturns,
                              IF fail = 0 THEN Len(SensorReturns)
                              ELSE IF fail = 1 THEN 0 ELSE fail - 2),
   ok |-> fail = 0]

\* The fallible steps of one Bldc::shutdown, numbered through the three
\* return_hardware calls
MagnetFails == Len(MagnetReturns)
DrvFails == Len(DrvReturns) + 1
SensorFails == Len(SensorReturns) + 1
ShutdownFails == 0..(MagnetFails + DrvFails + SensorFails)

\* The step that fails, counted within the call that starts after the first
\* skip steps (0: none of that call's steps fails)
FailWithin(fail, skip, steps) ==
  IF fail > skip /\ fail <= skip + steps THEN fail - skip ELSE 0

\* Bldc::shutdown once the first two wrappers have returned m and d
ShutdownSensor(m, d, p, fail) ==
  IF ~m.ok THEN [magnet_controller |-> m.dev, drv_8305 |-> d.dev,
                 position_sensor |-> p, hardware |-> m.hardware, ok |-> FALSE]
  ELSE IF ~d.ok
    THEN [magnet_controller |-> m.dev, drv_8305 |-> d.dev,
          position_sensor |-> p, hardware |-> d.hardware, ok |-> FALSE]
  ELSE LET Then(s) ==
             [magnet_controller |-> m.dev, drv_8305 |-> d.dev,
              position_sensor |-> s.dev, hardware |-> s.hardware,
              ok |-> s.ok]
       IN Then(SensorReturnHardware(
                 p, d.hardware,
                 FailWithin(fail, MagnetFails + DrvFails, SensorFails)))

\* Bldc::shutdown once the magnet controller has returned m
ShutdownDrv(m, d, p, fail) ==
  IF ~m.ok
  THEN ShutdownSensor(m, [dev |-> d, hardware |-> m.hardware, ok |-> FALSE],
                      p, fail)
  ELSE ShutdownSensor(m, DrvReturnHardware(
                           d, m.hardware,
                           FailWithin(fail, MagnetFails, DrvFails)),
                      p, fail)

\* A shutdown that keeps the encoder's hardware, against which C17 is tested
shutdownKeepsSensor(mc, d, p, hw, fail) ==
  [ShutdownDrv(MagnetReturnHardware(mc, hw, FailWithin(fail, 0, MagnetFails)),
               d, p, fail)
     EXCEPT !.hardware = @ \cup (hw \cap Range(SensorReturns))]

\* Bldc::shutdown
shutdown(mc, d, p, hw, fail) ==
  ShutdownDrv(MagnetReturnHardware(mc, hw, FailWithin(fail, 0, MagnetFails)),
              d, p, fail)

----------------------------------------------------------------------------
(* What the peripheral layer may answer during one Bldc::step              *)

Rejections == 0..3

NoInput == [frames |-> <<>>, rej |-> <<0, 0>>]

WarningFrames(d) == ReadFrames(d, Read("Warnings"), WarningReplies)

AngleFrames(p) == ReadFrames(p, Read("Angle"), AngleReplies)

\* What the mode's step may be answered, by what it asks for
ModeInputs(m, p) ==
  CASE m.tag = "Start" -> {NoInput}
    [] m.tag = "Demo" ->
         {[frames |-> f, rej |-> <<r, 0>>] :
            f \in AngleFrames(p), r \in Rejections}
    [] m.tag = "Calibrate" /\ m.phase \in {"Start", "BackwardTurn"} ->
         {[frames |-> <<>>, rej |-> <<r, 0>>] : r \in Rejections}
    [] m.tag = "Calibrate" /\ m.phase \in {"Settle", "ForwardSettle"} ->
         {[frames |-> f, rej |-> <<0, 0>>] : f \in AngleFrames(p)}
    [] m.tag = "Calibrate" /\ m.phase = "ForwardTurn" ->
         {[frames |-> <<>>, rej |-> <<r1, r2>>] :
            r1 \in Rejections,
            r2 \in IF m.cumulative_phase_angle + SPEED >= MAX_TURN
                   THEN Rejections ELSE {0}}
    [] m.tag = "Calibrate" /\ m.phase = "BackwardSettle" ->
         {[frames |-> f, rej |-> <<r1, r2>>] :
            f \in AngleFrames(p), r1 \in Rejections, r2 \in Rejections}
    [] OTHER -> {NoInput}

\* The word the encoder answered to the mode's read (-1: the mode did not
\* read the encoder, or the read failed its busy-wait)
EncoderReply(frames) ==
  IF frames # <<>> /\ frames[Len(frames)].ok
  THEN frames[Len(frames)].reply
  ELSE -1

\* The snapshot these frames deliver is clear, so the mode is stepped
SnapshotClear(frames) ==
  frames[Len(frames)].ok /\ frames[Len(frames)].reply = 0

StepInputs(m, p, frames) ==
  IF SnapshotClear(frames) THEN ModeInputs(m, p) ELSE {NoInput}

\* The model follows a settle phase for NUM_SAMPLES + ExtraSamples samples
WithinSampleBound(m) ==
  m.tag = "Calibrate" /\ m.phase \in {"Settle", "ForwardSettle", "BackwardSettle"}
    => m.settler.samples_collected < NUM_SAMPLES + ExtraSamples

----------------------------------------------------------------------------
(* runner.rs: do_loop                                                      *)

\* while program.should_continue().map_err(safemode)? { ... } shutdown
AfterShouldContinue(r) ==
  IF ~r.ok THEN "safemode" ELSE IF r.val THEN "step" ELSE "shutdown"

\* A loop that propagates the error of step without safemode, against
\* which C4 is tested
AfterStepNoSafemode(ok) == IF ok THEN "should_continue" ELSE "panic"

\* program.step().map_err(safemode)?
AfterStep(ok) == IF ok THEN "should_continue" ELSE "safemode"

\* run: panic!(e.message) once do_loop has returned the error
AfterSafemode == "panic"

\* The state Bldc::new leaves behind when it succeeds
Init ==
  /\ pc = "should_continue"
  /\ recovery_mode = FALSE
  /\ mode = ModeStart
  /\ drv_8305 = Drv8305Start(Drv8305New)
  /\ magnet_controller =
       MagnetControllerStart(
         set_phase_angle_and_power(MagnetControllerNew, 0, 0, 0).mc)
  /\ position_sensor = PositionSensorStart(PositionSensorNew(NUM_MAGNET_PAIRS))
  /\ out = <<>>
  /\ obs = [call |-> "new", ok |-> TRUE, snapshot |-> -1,
            mode_stepped |-> FALSE, commands |-> <<>>]
  /\ safemode_calls = 0
  /\ settler = SettlerNewValue
  /\ ingested = <<>>
  /\ settle_state = NotSettled
  /\ hardware = Resources
  /\ shutdown_calls = 0

ShouldContinue ==
  /\ pc = "should_continue"
  /\ pc' = AfterShouldContinue(should_continue)
  /\ UNCHANGED <<recovery_mode, mode, drv_8305, magnet_controller,
                 position_sensor, out, obs, safemode_calls, settler,
                 ingested, settle_state, hardware, shutdown_calls>>

Step ==
  /\ pc = "step"
  /\ \E frames \in WarningFrames(drv_8305) :
       \E in \in StepInputs(mode, position_sensor, frames) :
         \E s \in {step(drv_8305, recovery_mode, mode, magnet_controller,
                        position_sensor, frames, in)} :
           /\ s.mode_stepped => WithinSampleBound(mode)
           /\ pc' = AfterStep(s.ok)
           /\ recovery_mode' = s.recovery_mode
           /\ mode' = s.mode
           /\ drv_8305' = s.drv_8305
           /\ magnet_controller' =
                IF s.dispatched THEN s.magnet_controller ELSE magnet_controller
           /\ position_sensor' =
                IF s.dispatched THEN s.position_sensor ELSE position_sensor
           /\ out' = s.out
           /\ obs' = [call |-> "step", ok |-> s.ok, snapshot |-> s.snapshot,
                      mode_stepped |-> s.mode_stepped,
                      commands |-> IF s.dispatched THEN s.commands ELSE <<>>,
                      encoder |-> EncoderReply(in.frames)]
  /\ UNCHANGED <<safemode_calls, settler, ingested, settle_state,
                 hardware, shutdown_calls>>

Safemode ==
  /\ pc = "safemode"
  /\ \E rej \in Rejections :
       \E s \in {safemode(magnet_controller, drv_8305, rej)} :
         /\ magnet_controller' = s.res.mc
         /\ drv_8305' = s.drv_8305
         /\ obs' = [call |-> "safemode", ok |-> TRUE, snapshot |-> -1,
                    mode_stepped |-> FALSE,
                    commands |-> <<[gate |-> s.gate, ok |-> s.res.ok]>>]
  /\ pc' = AfterSafemode
  /\ safemode_calls' = safemode_calls + 1
  /\ out' = <<>>
  /\ UNCHANGED <<recovery_mode, mode, position_sensor, settler, ingested,
                 settle_state, hardware, shutdown_calls>>

Next == ShouldContinue \/ Step \/ Safemode

Spec == Init /\ [][Next]_vars

----------------------------------------------------------------------------
(* runner.rs with any Program: do_loop as it runs when should_continue may *)
(* answer true, false or an error (the Program trait allows all three;     *)
(* Bldc only ever answers true), with the step, safemode and shutdown of   *)
(* Bldc                                                                    *)

ShouldContinueResults ==
  {[ok |-> TRUE, val |-> TRUE], [ok |-> TRUE, val |-> FALSE],
   [ok |-> FALSE, val |-> FALSE]}

\* program.shutdown()?; Ok(()) and then run: loop {} or panic!(e.message)
AfterShutdown(ok) == IF ok THEN "done" ELSE "panic"

AnyShouldContinue ==
  /\ pc = "should_continue"
  /\ \E r \in ShouldContinueResults :
       /\ pc' = AfterShouldContinue(r)
       /\ obs' = [call |-> "should_continue", ok |-> r.ok, val |-> r.val]
  /\ UNCHANGED <<recovery_mode, mode, drv_8305, magnet_controller,
                 position_sensor, out, safemode_calls, settler, ingested,
                 settle_state, hardware, shutdown_calls>>

Shutdown ==
  /\ pc = "shutdown"
  /\ \E fail \in ShutdownFails :
       \E s \in {shutdown(magnet_controller, drv_8305, position_sensor,
                          hardware, fail)} :
         /\ magnet_controller' = s.magnet_controller
         /\ drv_8305' = s.drv_8305
         /\ position_sensor' = s.position_sensor
         /\ hardware' = s.hardware
         /\ pc' = AfterShutdown(s.ok)
         /\ obs' = [call |-> "shutdown", ok |-> s.ok, fail |-> fail]
  /\ shutdown_calls' = shutdown_calls + 1
  /\ out' = <<>>
  /\ UNCHANGED <<recovery_mode, mode, safemode_calls, settler, ingested,
                 settle_state>>

NextRunner == AnyShouldContinue \/ Step \/ Safemode \/ Shutdown

SpecRunner == Init /\ [][NextRunner]_vars

----------------------------------------------------------------------------
(* The program on the happy path of calibration: every warnings snapshot   *)
(* is zero, every busy-wait and every timer write succeeds, and within a   *)
(* settle phase the encoder answers every read with the same word.         *)
(* do_loop is one thread that calls should_continue and step in turn, and  *)
(* each call returns, so the loop keeps taking steps                       *)

AllOk(frames) == \A i \in 1..Len(frames) : frames[i].ok

\* The frames of a Warnings read that deliver a zero snapshot
ClearFrames(d) ==
  {f \in WarningFrames(d) : AllOk(f) /\ SnapshotClear(f)}

\* The encoder is held where the previous sample of this settle phase was read
HeldSteady(m, frames) ==
  (/\ m.tag = "Calibrate"
   /\ m.phase \in {"Settle", "ForwardSettle", "BackwardSettle"}
   /\ m.settler.samples_collected >= 1)
    => EncoderReply(frames) = obs.encoder

HappyInputs(m, p) ==
  {in \in ModeInputs(m, p) :
     in.rej = <<0, 0>> /\ AllOk(in.frames) /\ HeldSteady(m, in.frames)}

HappyStep ==
  /\ pc = "step"
  /\ \E frames \in ClearFrames(drv_8305) :
       \E in \in HappyInputs(mode, position_sensor) :
         \E s \in {step(drv_8305, recovery_mode, mode, magnet_controller,
                        position_sensor, frames, in)} :
           /\ s.mode_stepped => WithinSampleBound(mode)
           /\ pc' = AfterStep(s.ok)
           /\ recovery_mode' = s.recovery_mode
           /\ mode' = s.mode
           /\ drv_8305' = s.drv_8305
           /\ magnet_controller' = s.magnet_controller
           /\ position_sensor' = s.position_sensor
           /\ out' = s.out
           /\ obs' = [call |-> "step", ok |-> s.ok, snapshot |-> s.snapshot,
                      mode_stepped |-> s.mode_stepped,
                      commands |-> s.commands,
                      encoder |-> EncoderReply(in.frames)]
  /\ UNCHANGED <<safemode_calls, settler, ingested, settle_state,
                 hardware, shutdown_calls>>

NextHappy == ShouldContinue \/ HappyStep

\* HappyStep can be taken: there is an answer for the step to run on
StepReturns ==
  /\ ClearFrames(drv_8305) # {}
  /\ HappyInputs(mode, position_sensor) # {}
  /\ WithinSampleBound(mode)

\* do_loop moves on from the call it is at: the call returns.  On the happy
\* path should_continue and step always can (StepReturns), and nothing else
\* runs, so the loop is never kept from its next call
LoopAdvances == pc' \in {"should_continue", "step"} \ {pc}

SpecHappy == Init /\ [][NextHappy]_vars /\ WF_pc(LoopAdvances)

----------------------------------------------------------------------------
(* The MagnetController on its own: any sequence of set_* calls on the     *)
(* controller Bldc::new constructed, each accepted or rejected by the      *)
(* timer at any of its three writes                                        *)

PhaseRequests == {-PI2 - 1, 0, PI2_3, PI2 + PI}

PowerRequests == {-1, POWER_ONE \div 2, POWER_ONE, POWER_ONE + 2}

MagnetUnchanged ==
  UNCHANGED <<pc, recovery_mode, mode, drv_8305, position_sensor, out,
              safemode_calls, settler, ingested, settle_state,
              hardware, shutdown_calls>>

CallSetPhaseAngleAndPower ==
  /\ \E phase_angle \in PhaseRequests, power_scale \in PowerRequests,
        rej \in Rejections :
       \E c \in {set_phase_angle_and_power(magnet_controller, phase_angle,
                                           power_scale, rej)} :
         /\ magnet_controller' = c.mc
         /\ obs' = [call |-> "set_phase_angle_and_power", ok |-> c.ok,
                    phase_angle |-> phase_angle, power_scale |-> power_scale,
                    rej |-> rej]
  /\ MagnetUnchanged

CallSetPhaseAngle ==
  /\ \E phase_angle \in PhaseRequests, rej \in Rejections :
       \E c \in {set_phase_angle(magnet_controller, phase_angle, rej)} :
         /\ magnet_controller' = c.mc
         /\ obs' = [call |-> "set_phase_angle", ok |-> c.ok,
                    phase_angle |-> phase_angle,
                    power_scale |-> magnet_controller.power_scale,
                    rej |-> rej]
  /\ MagnetUnchanged

CallSetPowerScale ==
  /\ \E power_scale \in PowerRequests, rej \in Rejections :
       \E c \in {set_power_scale(magnet_controller, power_scale, rej)} :
         /\ magnet_controller' = c.mc
         /\ obs' = [call |-> "set_power_scale", ok |-> c.ok,
                    phase_angle |-> magnet_controller.phase_angle,
                    power_scale |-> power_scale, rej |-> rej]
  /\ MagnetUnchanged

NextMagnet == CallSetPhaseAngleAndPower \/ CallSetPhaseAngle \/ CallSetPowerScale

SpecMagnet == Init /\ [][NextMagnet]_vars

----------------------------------------------------------------------------
(* The Settler on its own: Settler::new and add_sample over any samples    *)

\* Absolute angles on the grid: 1 and 2 are MAX_DEVIATION apart, 4 is not
Samples == {1, 2, 4}

SettlerUnchanged ==
  UNCHANGED <<pc, recovery_mode, mode, drv_8305, magnet_controller,
              position_sensor, out, obs, safemode_calls, hardware,
              shutdown_calls>>

CallSettlerNew ==
  /\ settler' = SettlerNewValue
  /\ ingested' = <<>>
  /\ settle_state' = NotSettled
  /\ SettlerUnchanged

CallAddSample ==
  /\ Len(ingested) < NUM_SAMPLES + ExtraSamples
  /\ \E sample \in Samples :
       \E a \in {add_sample(settler, sample)} :
         /\ settler' = a.settler
         /\ settle_state' = a.state
         /\ ingested' = Append(ingested, sample)
  /\ SettlerUnchanged

NextSettler == CallSettlerNew \/ CallAddSample

SpecSettler == Init /\ [][NextSettler]_vars

----------------------------------------------------------------------------
(* The CalibrationMode on its own: CalibrationMode::new, then step called  *)
(* on the peripherals Bldc::new constructed until a step returns an error  *)
(* (the caller stops there, as Bldc::step and do_loop do), and on after    *)
(* the phase is Done                                                       *)

CalibrationUnchanged ==
  UNCHANGED <<pc, recovery_mode, safemode_calls, settler, ingested,
              settle_state, hardware, shutdown_calls>>

CallCalibrationModeNew ==
  /\ mode = ModeStart
  /\ mode' = CalibrationModeNew
  /\ out' = <<>>
  /\ obs' = [call |-> "CalibrationMode::new", ok |-> TRUE, phase |-> "Start",
             commands |-> <<>>, encoder |-> EncoderReply(<<>>)]
  /\ UNCHANGED <<drv_8305, magnet_controller, position_sensor>>
  /\ CalibrationUnchanged

CallCalibrationStep ==
  /\ mode.tag = "Calibrate"
  /\ obs.ok
  /\ WithinSampleBound(mode)
  /\ \E in \in ModeInputs(mode, position_sensor) :
       \E r \in {CalibrationStep(mode, Env(drv_8305, magnet_controller,
                                            position_sensor), in)} :
         /\ mode' = r.mode
         /\ drv_8305' = r.env.drv_8305
         /\ magnet_controller' = r.env.magnet_controller
         /\ position_sensor' = r.env.position_sensor
         /\ out' = r.env.out
         /\ obs' = [call |-> "CalibrationMode::step", ok |-> r.ok,
                    phase |-> mode.phase, commands |-> r.env.commands,
                    encoder |-> EncoderReply(in.frames)]
  /\ CalibrationUnchanged

NextCalibration == CallCalibrationModeNew \/ CallCalibrationStep

SpecCalibration == Init /\ [][NextCalibration]_vars

----------------------------------------------------------------------------
(* The two SPI devices on their own: any sequence of read() calls on the   *)
(* gate driver and on the encoder Bldc::new constructed, over all their    *)
(* registers, each frame answered or failing its busy-wait                 *)

\* drv_8305.rs ReadCommand and position_sensor.rs ReadCommand
DrvRegisters == {"Warnings", "OvercurrentFaults", "IcFaults",
                 "GateDriverFaults"}

SensorRegisters == {"Errors", "Diagnostics", "Magnitude", "Angle"}

\* Reply words on the bus
SpiReplies == {0, 1366, U16_MAX}

\* No read() came right before on the same device
NoRead == [register |-> "", ok |-> FALSE, sent |-> 0]

\* The read() the last call made, when it was on the same device
ReadBefore(call) ==
  IF obs.call = call
  THEN [register |-> obs.register, ok |-> obs.ok, sent |-> Len(obs.wrote)]
  ELSE NoRead

\* What one read() on dev did
ReadObserved(call, dev, rc, frames, r) ==
  [call |-> call, ok |-> r.ok, register |-> rc,
   same |-> dev.last_command = Read(rc), last_command |-> dev.last_command,
   val |-> r.val, wrote |-> r.wrote, frames |-> frames,
   before |-> ReadBefore(call)]

SpiUnchanged ==
  UNCHANGED <<pc, recovery_mode, mode, magnet_controller, out,
              safemode_calls, settler, ingested, settle_state,
              hardware, shutdown_calls>>

CallDrvRead ==
  /\ \E rc \in DrvRegisters :
       \E frames \in ReadFrames(drv_8305, Read(rc), SpiReplies) :
         \E r \in {read(drv_8305, rc, frames)} :
           /\ drv_8305' = r.dev
           /\ obs' = ReadObserved("Drv8305::read", drv_8305, rc, frames, r)
  /\ UNCHANGED position_sensor
  /\ SpiUnchanged

CallSensorRead ==
  /\ \E rc \in SensorRegisters :
       \E frames \in ReadFrames(position_sensor, Read(rc), SpiReplies) :
         \E r \in {read(position_sensor, rc, frames)} :
           /\ position_sensor' = r.dev
           /\ obs' = ReadObserved("PositionSensor::read", position_sensor, rc,
                                  frames, r)
  /\ UNCHANGED drv_8305
  /\ SpiUnchanged

NextSpi == CallDrvRead \/ CallSensorRead

SpecSpi == Init /\ [][NextSpi]_vars

----------------------------------------------------------------------------
(* The four decoders of drv_8305.rs on their own: decode, ok and has       *)
(* applied to 16-bit words                                                 *)

\* Every single bit, no bit, all bits, all but bit 0, and a few mixtures
DriverWords ==
  {0, 1, 2, 4, 8, 16, 32, 64, 128, 256, 512, 1024, 2048, 4096, 8192, 16384,
   32768, 3, 1026, 1536, 2047, U16_MAX - 1, U16_MAX}

\* The flags of a register, what its decode returns, and the names of the
\* flags that has() reports on the decoded word
FlagsOf(register) ==
  CASE register = "Warnings" -> WarningFlag
    [] register = "OvercurrentFaults" -> OvercurrentFaultFlag
    [] register = "IcFaults" -> IcFaultFlag
    [] OTHER -> GateDriverFaultFlag

DecodeOf(register, data) ==
  CASE register = "Warnings" -> WarningsDecode(data)
    [] register = "OvercurrentFaults" -> OvercurrentFaultsDecode(data)
    [] register = "IcFaults" -> IcFaultsDecode(data)
    [] OTHER -> GateDriverFaultsDecode(data)

OkOf(register, w) ==
  CASE register = "Warnings" -> WarningsOk(w)
    [] register = "OvercurrentFaults" -> OvercurrentFaultsOk(w)
    [] register = "IcFaults" -> IcFaultsOk(w)
    [] OTHER -> GateDriverFaultsOk(w)

HasOf(register, w, flag) ==
  CASE register = "Warnings" -> WarningsHas(w, flag)
    [] register = "OvercurrentFaults" -> OvercurrentFaultsHas(w, flag)
    [] register = "IcFaults" -> IcFaultsHas(w, flag)
    [] OTHER -> GateDriverFaultsHas(w, flag)

\* One decode with ok() and every has() asked of its result
Decoded(register, data, w) ==
  [register |-> register, word |-> data, ok |-> w.ok,
   clear |-> w.ok /\ OkOf(register, w),
   flags |-> IF w.ok
             THEN {n \in DOMAIN FlagsOf(register) :
                     HasOf(register, w, FlagsOf(register)[n])}
             ELSE {}]

NoDecode == [register |-> "", word |-> 0, ok |-> FALSE, clear |-> FALSE,
             flags |-> {}]

DecodeUnchanged ==
  UNCHANGED <<pc, recovery_mode, mode, drv_8305, magnet_controller,
              position_sensor, out, safemode_calls, settler, ingested,
              settle_state, hardware, shutdown_calls>>

CallDecode ==
  /\ \E register \in DrvRegisters, data \in DriverWords :
       obs' = [call |-> "decode",
               now |-> Decoded(register, data, DecodeOf(register, data)),
               before |-> IF obs.call = "decode" THEN obs.now ELSE NoDecode]
  /\ DecodeUnchanged

NextDecode == CallDecode

SpecDecode == Init /\ [][NextDecode]_vars

----------------------------------------------------------------------------
(* Properties of the supervisor and the runner                             *)

\* The last call was a Bldc::step that read the non-zero snapshot
SteppedOnWarning == obs.call = "step" /\ obs.snapshot > 0

\* C1: a step whose warnings snapshot is non-zero drives the gate low,
\* installs RecoveryMode and leaves the mode machine and the peripherals it
\* would command untouched; after every successful step recovery_mode is
\* present iff the snapshot read in that step was non-zero.
C1_WarningEntersRecovery ==
  /\ [](obs.call = "step" /\ obs.ok => (recovery_mode <=> obs.snapshot # 0))
  /\ [][pc = "step" /\ obs'.snapshot > 0
          => /\ obs'.ok
             /\ ~drv_8305'.en_gate
             /\ recovery_mode'
             /\ mode' = mode
             /\ magnet_controller' = magnet_controller
             /\ position_sensor' = position_sensor
             /\ obs'.commands = <<>>]_vars

\* A warning arrived while Demo was ramping with the gate enabled by Demo
C1_Witness ==
  /\ SteppedOnWarning
  /\ recovery_mode
  /\ ~drv_8305.en_gate
  /\ mode.tag = "Demo"
  /\ mode.power > MIN

\* C2: whenever a Calibrate or Demo step issues a phase-angle/power command
\* to the magnet controller, the gate-enable line is high.
C2_MotionOnlyWithGateHigh ==
  obs.call = "step" =>
    \A i \in 1..Len(obs.commands) : obs.commands[i].gate

\* C3: no step taken while in recovery changes the Mode variant or any
\* field of it, and the step that reads a zero snapshot clears recovery and
\* steps the mode from the state it held.
C3_RecoveryPreservesMode ==
  /\ [][pc = "step" /\ recovery_mode' => mode' = mode]_vars
  /\ [][pc = "step" /\ obs'.snapshot = 0
          => ~recovery_mode' /\ obs'.mode_stepped]_vars

\* Demo steps again after a recovery episode: its command finds the gate as
\* recovery left it
C3_Witness ==
  /\ obs.call = "step"
  /\ obs.mode_stepped
  /\ ~recovery_mode
  /\ mode.tag = "Demo"
  /\ mode.power = MAX
  /\ Len(obs.commands) = 1
  /\ ~obs.commands[1].gate

\* C4: an error returned by step() (or should_continue()) makes do_loop call
\* safemode() exactly once and then propagate the error; nothing runs after
\* it.
C4_ErrorIsTerminal ==
  /\ [](safemode_calls = IF pc = "panic" THEN 1 ELSE 0)
  /\ [][/\ pc = "step" /\ ~obs'.ok => pc' = "safemode"
        /\ pc = "step" /\ obs'.ok => pc' = "should_continue"
        /\ pc = "safemode" => pc' = "panic" /\ obs'.call = "safemode"
        /\ pc # "panic"]_vars

\* The driver answered 0xFFFF (or the read failed) and the runner has braked
C4_Witness ==
  /\ pc = "panic"
  /\ safemode_calls = 1
  /\ obs.call = "safemode"
  /\ mode.tag = "Demo"

\* C5 as claimed: after safemode() the stored power scale is 0, the gate is
\* low and the mode state is unchanged, whatever the timer answers.
C5_SafemodeAlwaysZeroPower ==
  [][pc = "safemode"
       => /\ magnet_controller'.power_scale = 0
          /\ ~drv_8305'.en_gate
          /\ mode' = mode
          /\ recovery_mode' = recovery_mode]_vars

\* C5 amended: after safemode() the gate is low and the mode state is
\* unchanged; the stored power scale is 0 if the timer accepted the three
\* duty writes of set_power_scale(0), and is the previous one otherwise.
C5_SafemodeBrakes ==
  [][pc = "safemode"
       => /\ ~drv_8305'.en_gate
          /\ mode' = mode
          /\ recovery_mode' = recovery_mode
          /\ position_sensor' = position_sensor
          /\ obs'.commands[1].ok =>
               /\ magnet_controller'.power_scale = 0
               /\ magnet_controller'.ch_u_pwm = 0
               /\ magnet_controller'.ch_v_pwm = 0
               /\ magnet_controller'.ch_w_pwm = 0
          /\ ~obs'.commands[1].ok =>
               magnet_controller'.power_scale = magnet_controller.power_scale]_vars

\* safemode() braked a Demo that was ramping with the gate high
C5_Witness ==
  /\ pc = "panic"
  /\ obs.call = "safemode"
  /\ obs.commands[1].ok
  /\ obs.commands[1].gate
  /\ magnet_controller.power_scale = 0
  /\ mode.tag = "Demo"
  /\ mode.power = MAX

----------------------------------------------------------------------------
(* Properties of the MagnetController (SpecMagnet)                          *)

MagnetCalls == {"set_phase_angle_and_power", "set_phase_angle",
                "set_power_scale"}

\* C6: after construction and after any successful set_* call the stored
\* phase_angle lies in [0, 2 pi) and the stored power_scale in [0, 1]; a
\* requested power below 0 is accepted as 0, one above 1 as 1, and one in
\* [0, 1] unchanged.
C6_StoredInRange ==
  /\ magnet_controller.phase_angle >= 0
  /\ magnet_controller.phase_angle < PI2
  /\ magnet_controller.power_scale >= 0
  /\ magnet_controller.power_scale <= POWER_ONE
  /\ obs.call \in MagnetCalls /\ obs.ok =>
       /\ obs.power_scale < 0 => magnet_controller.power_scale = 0
       /\ obs.power_scale > POWER_ONE =>
            magnet_controller.power_scale = POWER_ONE
       /\ obs.power_scale >= 0 /\ obs.power_scale <= POWER_ONE =>
            magnet_controller.power_scale = obs.power_scale

\* A call with a negative angle and a power above 1 was accepted
C6_Witness ==
  /\ obs.call = "set_phase_angle_and_power"
  /\ obs.ok
  /\ obs.phase_angle < 0
  /\ obs.power_scale > POWER_ONE
  /\ magnet_controller.phase_angle = PI2 - 1
  /\ magnet_controller.power_scale = POWER_ONE

\* The duty cycle of channel k for the stored values:
\* (cos(norm(phase_angle - k * 2 pi / 3)) / 2 + 0.5) * power_scale
LawDuty(mc, k) ==
  (CosTable[norm_rads(mc.phase_angle - k * PI2_3) + 1] \div 2 + DUTY_ONE \div 2)
    * mc.power_scale

\* C7: in every reachable state of the MagnetController, whether each call
\* succeeded or was rejected by the timer at any of its three writes, each
\* of the three duty cycles is the law's function of the stored
\* (phase_angle, power_scale).
C7_DutiesFollowStored ==
  /\ magnet_controller.ch_u_pwm = LawDuty(magnet_controller, 0)
  /\ magnet_controller.ch_v_pwm = LawDuty(magnet_controller, 1)
  /\ magnet_controller.ch_w_pwm = LawDuty(magnet_controller, 2)

\* C8: if any of the three duty-cycle writes is rejected the error is
\* returned and the stored (phase_angle, power_scale) keep their previous
\* values; they change only when all three writes succeed.
C8_StoredOnlyOnSuccess ==
  /\ [](obs.call \in MagnetCalls => (obs.ok <=> obs.rej = 0))
  /\ [][obs'.call \in MagnetCalls /\ ~obs'.ok
          => /\ magnet_controller'.phase_angle = magnet_controller.phase_angle
             /\ magnet_controller'.power_scale = magnet_controller.power_scale]_vars

\* The timer rejected the third write of a call that had already rewritten
\* the first two compare registers; the stored values are the earlier ones
C8_Witness ==
  /\ obs.call = "set_phase_angle_and_power"
  /\ obs.rej = 3
  /\ ~obs.ok
  /\ obs.power_scale = POWER_ONE
  /\ magnet_controller.power_scale = 0
  /\ magnet_controller.ch_u_pwm > 0

----------------------------------------------------------------------------
(* Properties of the Settler (SpecSettler)                                 *)

\* The NUM_SAMPLES most recently ingested samples
Window == SubSeq(ingested, Len(ingested) - NUM_SAMPLES + 1, Len(ingested))

\* Every sample of the window lies within MAX_DEVIATION of the window's mean
WindowAtRest ==
  \A i \in 1..NUM_SAMPLES :
    Abs(SumSamples(Window, 1) - NUM_SAMPLES * Window[i])
      <= NUM_SAMPLES * MAX_DEVIATION

\* C9: add_sample returns Settled(mean) if and only if at least NUM_SAMPLES
\* samples have been ingested and every one of the NUM_SAMPLES most recently
\* ingested lies within MAX_DEVIATION of their arithmetic mean.
C9_SettledIffWindowAtRest ==
  ingested # <<>> =>
    /\ settle_state.settled <=>
         (Len(ingested) >= NUM_SAMPLES /\ WindowAtRest)
    /\ settle_state.settled =>
         settle_state.mean = SumSamples(Window, 1) \div NUM_SAMPLES

\* C10: the Settler never reports Settled before NUM_SAMPLES samples have
\* been ingested since its creation.
C10_NoEarlySettle ==
  Len(ingested) < NUM_SAMPLES => ~settle_state.settled

\* NUM_SAMPLES - 1 equal samples have been fed and the last call returned
\* NotSettled
C10_Witness ==
  /\ Len(ingested) = NUM_SAMPLES - 1
  /\ \A i \in 1..Len(ingested) : ingested[i] = 2
  /\ settler.samples_collected = NUM_SAMPLES - 1
  /\ ~settle_state.settled

----------------------------------------------------------------------------
(* Properties of the CalibrationMode (SpecCalibration)                     *)

\* modes/calibration.rs Phase, in declaration order
PhaseOrder == <<"Start", "Settle", "ForwardTurn", "ForwardSettle",
                "BackwardTurn", "BackwardSettle", "Done">>

PhaseIndex(phase) == CHOOSE i \in 1..Len(PhaseOrder) : PhaseOrder[i] = phase

\* One CalibrationMode::step keeps the phase or moves it to the next one,
\* and in Done changes nothing at all
LinearStep ==
  /\ PhaseIndex(mode'.phase) - PhaseIndex(mode.phase) \in {0, 1}
  /\ mode.phase = "Done" =>
       /\ mode' = mode
       /\ drv_8305' = drv_8305
       /\ magnet_controller' = magnet_controller
       /\ position_sensor' = position_sensor
       /\ obs'.ok
       /\ obs'.commands = <<>>
       /\ out' = <<>>

\* C11: the calibration phase changes only along Start, Settle, ForwardTurn,
\* ForwardSettle, BackwardTurn, BackwardSettle, Done, at most one transition
\* per step, never skipping and never backwards; Start always advances to
\* Settle on its first step and the step of Done is a no-op.
C11_LinearAlwaysLeavesStart ==
  [][obs'.call = "CalibrationMode::step"
       => /\ LinearStep
          /\ mode.phase = "Start" => mode'.phase = "Settle"]_vars

\* C11 (amended): as above, but Start advances to Settle on its first step
\* that returns Ok; a step in Start whose command the timer rejects returns
\* the error with the phase still Start.
C11_LinearPhases ==
  [][obs'.call = "CalibrationMode::step"
       => /\ LinearStep
          /\ mode.phase = "Start" /\ obs'.ok => mode'.phase = "Settle"
          /\ mode.phase = "Start" /\ ~obs'.ok => mode'.phase = "Start"]_vars

\* The walk reached Done and Done has been stepped
C11_Witness ==
  /\ obs.call = "CalibrationMode::step"
  /\ obs.phase = "Done"
  /\ mode.phase = "Done"
  /\ mode.cumulative_phase_angle <= 0

----------------------------------------------------------------------------
(* Properties of the DemoMode (Spec)                                       *)

\* C12: in every reachable Demo state the ramp variable power lies in
\* [MIN, MAX] and angle is +pi/2 or -pi/2, so every power Demo passes to
\* set_phase_angle_and_power lies in [MIN, MAX].
C12_DemoPowerInRange ==
  mode.tag = "Demo" =>
    /\ mode.power >= MIN
    /\ mode.power <= MAX
    /\ mode.angle \in {PI1_2, -PI1_2}

----------------------------------------------------------------------------
(* Properties of read() on the two SPI devices (SpecSpi)                   *)

SpiReads == {"Drv8305::read", "PositionSensor::read"}

\* The device the last read() was made on, as that read left it
DeviceRead ==
  IF obs.call = "Drv8305::read" THEN drv_8305 ELSE position_sensor

\* Every word the last read() wrote to the bus carries its register
WroteRegister ==
  \A i \in 1..Len(obs.wrote) : obs.wrote[i] = Read(obs.register)

\* C13: for both the gate driver and the encoder read(R): if last_command is
\* Read(R) exactly one frame carrying R is sent; otherwise exactly two frames
\* carrying R are sent, the first to prime and the second to capture; the
\* value returned is the reply to the last frame, and afterwards
\* last_command = Read(R).
C13_ReadAlwaysPrimesAndCaptures ==
  obs.call \in SpiReads =>
    /\ Len(obs.wrote) = IF obs.same THEN 1 ELSE 2
    /\ WroteRegister
    /\ obs.ok => obs.val = obs.frames[Len(obs.frames)].reply
    /\ DeviceRead.last_command = Read(obs.register)

\* C13 (amended): as above unless the busy-wait of the priming frame fails;
\* then only that frame has been sent, the error is returned and
\* last_command keeps the value it had before the read.
C13_ReadPrimesAndCaptures ==
  obs.call \in SpiReads =>
    /\ WroteRegister
    /\ obs.same =>
         /\ Len(obs.wrote) = 1
         /\ obs.ok = obs.frames[1].ok
         /\ DeviceRead.last_command = Read(obs.register)
    /\ ~obs.same /\ obs.frames[1].ok =>
         /\ Len(obs.wrote) = 2
         /\ obs.ok = obs.frames[2].ok
         /\ DeviceRead.last_command = Read(obs.register)
    /\ ~obs.same /\ ~obs.frames[1].ok =>
         /\ Len(obs.wrote) = 1
         /\ ~obs.ok
         /\ DeviceRead.last_command = obs.last_command
    /\ obs.ok => obs.val = obs.frames[Len(obs.frames)].reply

\* A read of a register other than the last one read returned the reply to
\* its second frame, which differs from the reply to its priming frame
C13_Witness ==
  /\ obs.call = "PositionSensor::read"
  /\ obs.last_command = Read("Angle")
  /\ obs.register = "Magnitude"
  /\ obs.ok
  /\ Len(obs.wrote) = 2
  /\ obs.frames[1].reply = U16_MAX
  /\ obs.val = 1366

\* Two reads in a row on one device, both returning Ok
TwoReads == obs.call \in SpiReads /\ obs.ok /\ obs.before.ok

\* C14: two consecutive reads of the same register take two SPI frames in
\* total, whereas a read of a register different from the previously read
\* one issues one priming frame plus one data frame.
C14_SameRegisterTwoFramesInTotal ==
  TwoReads =>
    /\ obs.before.register = obs.register =>
         obs.before.sent + Len(obs.wrote) = 2
    /\ obs.before.register # obs.register => Len(obs.wrote) = 2

\* C14 (amended): the second of two consecutive reads of the same register
\* takes one frame, so the two take two frames in total when the first found
\* its register in last_command and three when the first had to prime; a
\* read of a register different from the previously read one issues one
\* priming frame plus one data frame.
C14_SecondReadTakesOneFrame ==
  TwoReads =>
    /\ obs.before.register = obs.register =>
         /\ Len(obs.wrote) = 1
         /\ obs.before.sent \in {1, 2}
    /\ obs.before.register # obs.register => Len(obs.wrote) = 2

\* The first read of Warnings after construction took two frames and the
\* read of Warnings that followed it took one
C14_Witness ==
  /\ obs.call = "Drv8305::read"
  /\ obs.register = "Warnings"
  /\ obs.ok
  /\ obs.before = [register |-> "Warnings", ok |-> TRUE, sent |-> 2]
  /\ Len(obs.wrote) = 1
  /\ position_sensor.last_command = Nop

----------------------------------------------------------------------------
(* Properties of the driver word decoders (SpecDecode)                     *)

\* The positions of the bits that are set in a 16-bit word
BitsOf(word) == {k \in 0..15 : (word \div 2^k) % 2 = 1}

\* C15: decoding a 16-bit driver word w (Warnings and the three fault
\* registers) is a function of w: it fails iff w = 0xFFFF; otherwise
\* has(flag) is true iff that flag's bit is set in w and ok() is true iff
\* w = 0; decoding the same word twice yields equal flag sets and decoding 0
\* yields the empty set.
C15_DecodeIsFunctionOfWord ==
  obs.call = "decode" =>
    /\ obs.now.ok <=> obs.now.word # U16_MAX
    /\ obs.now.ok =>
         /\ \A n \in DOMAIN FlagsOf(obs.now.register) :
              n \in obs.now.flags <=>
                \E k \in BitsOf(obs.now.word) :
                  FlagsOf(obs.now.register)[n] = 2^k
         /\ obs.now.clear <=> obs.now.word = 0
    /\ obs.now.word = 0 => obs.now.ok /\ obs.now.flags = {}
    /\ obs.before.register = obs.now.register
         /\ obs.before.word = obs.now.word => obs.before = obs.now

\* The word with bits 1 and 10 was decoded twice as Warnings
C15_Witness ==
  /\ obs.call = "decode"
  /\ obs.now.register = "Warnings"
  /\ obs.now.word = 1026
  /\ obs.now.flags = {"TempOver135C", "Fault"}
  /\ ~obs.now.clear
  /\ obs.before = obs.now

----------------------------------------------------------------------------
(* Properties of the encoder reads inside a supervisor step (Spec)         *)

\* C16: an all-ones (0xFFFF) reply on the encoder SPI channel is decoded as
\* an 'encoder offline' error: read_absolute_angle and read_phase_angle
\* return an error rather than an angle for that reply, and the error
\* reaches the step-error (safemode) path of the supervisor.
C16_EncoderOfflineIsError ==
  obs.call = "step" /\ obs.encoder = U16_MAX =>
    ~obs.ok /\ pc = "safemode"

----------------------------------------------------------------------------
(* Properties of the runner with any Program (SpecRunner)                  *)

\* Nothing is left in the hands of a wrapper, the timer and both SPI
\* engines are stopped, the gate is low and both chip selects are high: the
\* constructors find every resource they take
HardwareReturned ==
  /\ hardware = {}
  /\ \A r \in Resources : r \notin hardware
  /\ ~magnet_controller.timer_on
  /\ ~drv_8305.spi_on /\ drv_8305.csn /\ ~drv_8305.en_gate
  /\ ~position_sensor.spi_on /\ position_sensor.csn

----------------------------------------------------------------------------
(* Properties of the diagnostic lines of a supervisor step (Spec)          *)

\* The bits of the Warnings register that have a flag, in increasing order,
\* and the line of each
WarningBits == <<0, 1, 2, 3, 4, 5, 6, 7, 8, 10>>

WarningText ==
  <<"Overtemp", "Temp over 135 C", "Temp over 125 C", "Temp over 105 C",
    "Charge pump undervolt", "VDS overcurrent", "PVDD overvolt",
    "PVDD undervolt", "Temp over 175 C", "FAULT">>

\* The lines of the flag bits that are set in a snapshot, in bit order
LinesOfSetBits(snapshot) ==
  LET set == SelectSeq([i \in 1..Len(WarningBits) |-> i],
                       LAMBDA i : WarningBits[i] \in BitsOf(snapshot))
  IN [j \in 1..Len(set) |-> WarningText[set[j]]]

\* What a step prints about its snapshot: the lines of the set flag bits
\* and no other warning line
PrintsFlagLines ==
  /\ obs.snapshot > 0 => out = LinesOfSetBits(obs.snapshot)
  /\ obs.snapshot = 0 =>
       \A i \in 1..Len(out) : out[i] \notin Range(WarningText)
  /\ obs.snapshot = 1 => out = <<"Overtemp">>

\* C18: for every non-zero warnings snapshot the step emits exactly one
\* diagnostic line for each bit that is set in the snapshot (the ten warning
\* lines, in bit order), and a zero snapshot emits no warning line; a
\* snapshot with only bit 0 set emits exactly the line 'Overtemp'.
C18_OneLinePerSetBit ==
  obs.call = "step" /\ obs.ok =>
    /\ PrintsFlagLines
    /\ obs.snapshot > 0 => Len(out) = Cardinality(BitsOf(obs.snapshot))

\* C18 (amended): one line for each of the ten flag bits (0 to 8 and 10)
\* that is set, in bit order; bits 9 and 11 to 15 have no line, so a
\* snapshot in which only such bits are set prints nothing.
C18_OneLinePerSetFlag ==
  obs.call = "step" /\ obs.ok =>
    /\ PrintsFlagLines
    /\ obs.snapshot > 0 =>
         Len(out) = Cardinality(BitsOf(obs.snapshot) \cap Range(WarningBits))

\* A snapshot with bits 1 and 10 set printed its two lines in bit order
C18_Witness ==
  /\ obs.call = "step"
  /\ obs.ok
  /\ obs.snapshot = 1026
  /\ out = <<"Temp over 135 C", "FAULT">>
  /\ recovery_mode

----------------------------------------------------------------------------
(* Properties of Mode::Start (Spec)                                        *)

\* Once Start has been replaced it never comes back
StartNeverReturns == [][mode.tag # "Start" => mode'.tag # "Start"]_vars

\* C19: Mode::Start is transient: the first supervisor step replaces Start
\* with Calibrate (a fresh CalibrationMode in phase Start, not yet stepped),
\* so after the first successful step the mode is never Start.
C19_FirstStepLeavesStart ==
  /\ [](obs.call = "step" /\ obs.ok => mode.tag # "Start")
  /\ [][pc = "step" /\ mode.tag = "Start" /\ obs'.ok
          => mode' = CalibrationModeNew]_vars
  /\ StartNeverReturns

\* C19 (amended): the first supervisor step whose warnings snapshot is zero
\* replaces Start with a fresh, not yet stepped CalibrationMode; a step
\* whose snapshot is non-zero runs the recovery step and leaves Start in
\* place; once replaced, the mode is never Start again.
C19_FirstClearStepLeavesStart ==
  /\ [](obs.call = "step" /\ obs.ok /\ obs.snapshot = 0 => mode.tag # "Start")
  /\ [][pc = "step" /\ mode.tag = "Start" /\ obs'.ok /\ obs'.snapshot = 0
          => /\ mode' = CalibrationModeNew
             /\ obs'.commands = <<>>
             /\ drv_8305'.en_gate = drv_8305.en_gate
             /\ magnet_controller' = magnet_controller
             /\ position_sensor' = position_sensor]_vars
  /\ [][pc = "step" /\ mode.tag = "Start" /\ obs'.snapshot # 0
          => mode' = mode]_vars
  /\ StartNeverReturns

\* A step with a clear snapshot has just replaced Start
C19_Witness ==
  /\ obs.call = "step"
  /\ obs.ok
  /\ obs.snapshot = 0
  /\ obs.mode_stepped
  /\ mode = CalibrationModeNew
  /\ ~drv_8305.en_gate

----------------------------------------------------------------------------
(* Properties of the encoder's zero offset (Spec)                          *)

\* The step now taken is the one in which calibration Settle reports Settled
SettleSettles ==
  /\ pc = "step"
  /\ mode.tag = "Calibrate"
  /\ mode.phase = "Settle"
  /\ mode'.phase = "ForwardTurn"

\* Calibration has not yet found its zero
BeforeZero ==
  mode.tag = "Start" \/ (mode.tag = "Calibrate"
                           /\ mode.phase \in {"Start", "Settle"})

\* C20: the encoder's zero offset is 0 from construction until the
\* calibration Settle phase reports Settled(mu); in that step the offset is
\* set to mu (equal to CalibrationMode.zero) and the phase becomes
\* ForwardTurn; no other step of any mode, recovery or safemode changes the
\* offset, so it is written exactly once per calibration.
C20_OffsetWrittenOnce ==
  /\ [](BeforeZero => position_sensor.offset = 0)
  /\ [](mode.tag = "Calibrate" /\ ~BeforeZero
          => position_sensor.offset = mode.zero)
  /\ [][SettleSettles
          => /\ obs'.ok
             /\ position_sensor'.offset = mode'.zero
             /\ out' = <<"SET OFFSET", "Found zero at {} radians">>]_vars
  /\ [][~SettleSettles
          => position_sensor'.offset = position_sensor.offset]_vars
  /\ [][pc = "step" /\ ~SettleSettles
          => \A i \in 1..Len(out') : out'[i] # "SET OFFSET"]_vars

\* Settle has just settled on a zero other than 0 and set the offset to it
C20_Witness ==
  /\ obs.call = "step"
  /\ mode.tag = "Calibrate"
  /\ mode.phase = "ForwardTurn"
  /\ mode.cumulative_phase_angle = 0
  /\ mode.zero = 2
  /\ position_sensor.offset = 2
  /\ out = <<"SET OFFSET", "Found zero at {} radians">>

----------------------------------------------------------------------------
(* Properties of the settle phases of calibration (SpecCalibration)        *)

SettlePhases == {"Settle", "ForwardSettle", "BackwardSettle"}

\* The field of CalibrationMode a settle phase records its value in
RecordedIn(cm, phase) ==
  CASE phase = "Settle" -> cm.zero
    [] phase = "ForwardSettle" -> cm.forward_extent
    [] OTHER -> cm.backward_extent

\* The angle read_absolute_angle makes of the reply the last step was given
SampleRead ==
  norm_rads(raw_to_rads(obs'.encoder % (POS_MAX_U16 + 1))
            - position_sensor.offset)

\* The step now taken is a step of CalibrationMode in a settle phase that
\* read its sample
SettleStep ==
  /\ mode.tag = "Calibrate"
  /\ mode.phase \in SettlePhases
  /\ mode' # mode

\* C21: the Settler is reset on entering ForwardSettle and on entering
\* BackwardSettle, so each of the three settle phases lasts at least
\* NUM_SAMPLES calibration steps, and each recorded value (zero,
\* forward_extent, backward_extent) is computed only from samples read
\* during its own settle phase.
C21_SettlePhasesAreSeparate ==
  /\ [][/\ mode'.tag = "Calibrate"
        /\ mode'.phase \in SettlePhases
        /\ mode.tag = "Calibrate" => mode.phase # mode'.phase
        => mode'.settler = SettlerNewValue]_vars
  /\ [][SettleStep
          => /\ mode'.settler.samples_collected
                  = mode.settler.samples_collected + 1
             /\ mode'.settler.samples[1] = SampleRead
             /\ \A i \in 2..NUM_SAMPLES :
                  mode'.settler.samples[i] = mode.settler.samples[1]]_vars
  /\ [][SettleStep /\ mode'.phase # mode.phase
          => /\ mode'.settler.samples_collected >= NUM_SAMPLES
             /\ mode.settler.samples_collected >= 1
             /\ RecordedIn(mode', mode.phase)
                  = SumSamples(mode'.settler.samples, 1) \div NUM_SAMPLES]_vars
  /\ [][mode.tag = "Calibrate" /\ mode'.tag = "Calibrate"
          => \A ph \in SettlePhases :
               RecordedIn(mode', ph) # RecordedIn(mode, ph)
                 => SettleStep /\ mode.phase = ph /\ mode'.phase # ph]_vars

\* BackwardSettle has just settled on a backward extent other than the zero
\* and the forward extent, after exactly NUM_SAMPLES samples
C21_Witness ==
  /\ obs.call = "CalibrationMode::step"
  /\ obs.phase = "BackwardSettle"
  /\ mode.phase = "Done"
  /\ mode.settler.samples_collected = NUM_SAMPLES
  /\ mode.backward_extent # 0
  /\ mode.backward_extent # mode.forward_extent
  /\ mode.forward_extent # mode.zero

----------------------------------------------------------------------------
(* Properties of the turn phases of calibration (SpecCalibration)          *)

\* C22: ForwardTurn adds SPEED to cumulative_phase_angle each step and
\* commands that angle; in the step where it reaches MAX_TURN the angle is
\* pinned to MAX_TURN, i.e. on entry to ForwardSettle cumulative_phase_angle
\* equals MAX_TURN and the last commanded phase angle is norm(MAX_TURN), so
\* cumulative_phase_angle never exceeds MAX_TURN in any reachable state.
C22_TurnPinnedAtMaxTurn ==
  /\ [](mode.tag = "Calibrate" => mode.cumulative_phase_angle <= MAX_TURN)
  /\ [][mode.tag = "Calibrate" /\ mode.phase = "ForwardTurn" /\ mode' # mode
          => mode'.cumulative_phase_angle
               = mode.cumulative_phase_angle + SPEED]_vars
  /\ [][mode.tag = "Calibrate" /\ mode.phase = "ForwardTurn"
          /\ mode'.phase = "ForwardSettle"
          => /\ mode'.cumulative_phase_angle = MAX_TURN
             /\ magnet_controller'.phase_angle = norm_rads(MAX_TURN)]_vars

----------------------------------------------------------------------------
(* Properties of the end of calibration (Spec)                             *)

\* The step now taken is the one in which BackwardSettle reports Settled
BackwardSettles ==
  /\ pc = "step"
  /\ mode.tag = "Calibrate"
  /\ mode.phase = "BackwardSettle"
  /\ mode' # mode
  /\ mode'.tag = "Calibrate" => mode'.phase = "Done"

\* Demo as DemoMode::new returns it
FreshDemo == [tag |-> "Demo", accel |-> ACCEL, power |-> MIN, angle |-> PI1_2]

AtRest(mc) == mc.phase_angle = 0 /\ mc.power_scale = 0

\* What CalibrationMode::step does from a BackwardSettle state when the
\* Settler settles: backward_extent is the mean, the phase is Done, (0, 0)
\* is commanded, and the gate is then disabled, in every case or (always
\* FALSE) if the command was accepted
BackwardSettleRecords(always) ==
  mode.tag = "Calibrate" /\ mode.phase = "BackwardSettle" =>
    \A in \in ModeInputs(mode, position_sensor) :
      \A c \in {CalibrationStep(mode, Env(drv_8305, magnet_controller,
                                          position_sensor), in)} :
        c.mode.phase = "Done" =>
          /\ c.mode.backward_extent
               = SumSamples(c.mode.settler.samples, 1) \div NUM_SAMPLES
          /\ Len(c.env.commands) = 1
          /\ c.ok = c.env.commands[1].ok
          /\ c.ok \/ always
               => ~c.env.drv_8305.en_gate /\ AtRest(c.env.magnet_controller)

\* C23 (as stated): in the supervisor step where BackwardSettle reports
\* Settled(mu), backward_extent is set to mu, the magnet controller is
\* commanded (0, 0), the gate is disabled and the phase becomes Done; and in
\* that same supervisor step is_done() is observed and Demo is constructed
\* and installed (gate enabled, (0, 0) commanded).  Hence after any
\* successful supervisor step the mode is never Calibrate with phase Done.
C23_SettledStepInstallsDemo ==
  /\ [][BackwardSettles
          => /\ mode' = FreshDemo
             /\ drv_8305'.en_gate
             /\ AtRest(magnet_controller')
             /\ Len(obs'.commands) = 2]_vars
  /\ []BackwardSettleRecords(TRUE)
  /\ [](obs.call = "step" /\ obs.ok
          => ~(mode.tag = "Calibrate" /\ mode.phase = "Done"))

\* C23 (amended): the same when the timer accepts both (0, 0) commands; when
\* it rejects one, the step fails with the mode left Calibrate in phase Done
\* and safemode comes next.
C23_AcceptedSettledStepInstallsDemo ==
  /\ [][BackwardSettles /\ obs'.ok
          => /\ mode' = FreshDemo
             /\ drv_8305'.en_gate
             /\ AtRest(magnet_controller')
             /\ Len(obs'.commands) = 2
             /\ obs'.commands[1].ok
             /\ obs'.commands[2] = [gate |-> TRUE, ok |-> TRUE]
             /\ out' = <<"Found backward extent at {} radians">>]_vars
  /\ [][BackwardSettles /\ ~obs'.ok
          => /\ mode'.tag = "Calibrate"
             /\ mode'.phase = "Done"
             /\ mode'.backward_extent
                  = SumSamples(mode'.settler.samples, 1) \div NUM_SAMPLES
             /\ Len(obs'.commands) \in {1, 2}
             /\ ~obs'.commands[Len(obs'.commands)].ok
             /\ pc' = "safemode"]_vars
  /\ []BackwardSettleRecords(FALSE)
  /\ [](obs.call = "step" /\ obs.ok
          => ~(mode.tag = "Calibrate" /\ mode.phase = "Done"))

\* The step in which BackwardSettle settled has just installed Demo
C23_Witness ==
  /\ obs.call = "step"
  /\ obs.ok
  /\ mode = FreshDemo
  /\ out = <<"Found backward extent at {} radians">>
  /\ Len(obs.commands) = 2
  /\ drv_8305.en_gate
  /\ AtRest(magnet_controller)

----------------------------------------------------------------------------
(* Properties of the ramp of DemoMode::step (Spec)                         *)

\* The step now taken calls DemoMode::step
DemoStepTaken == pc = "step" /\ mode.tag = "Demo" /\ obs'.mode_stepped

\* The electrical angle read_phase_angle makes of the reply the step was
\* given
ThetaE ==
  Fmodf(norm_rads(raw_to_rads(obs'.encoder % (POS_MAX_U16 + 1))
                  - position_sensor.offset),
        PI2 \div position_sensor.num_magnet_pairs)
    * position_sensor.num_magnet_pairs

\* What the claim says a Demo step does
DemoRamps ==
  /\ mode'.tag = "Demo"
  /\ mode'.accel \in {mode.accel, -mode.accel}
  /\ mode'.accel = -mode.accel <=> mode.power > MAX \/ mode.power < MIN
  /\ mode'.angle \in {mode.angle, -mode.angle}
  /\ mode'.angle = -mode.angle <=> mode.power < MIN
  /\ mode.power > MAX => mode'.angle = mode.angle
  /\ mode'.power = mode.power + mode'.accel
  /\ Len(obs'.commands) = 1
  /\ obs'.ok = obs'.commands[1].ok
  /\ obs'.ok => /\ magnet_controller'.phase_angle
                     = norm_rads(ThetaE + mode'.angle)
                /\ magnet_controller'.power_scale = ClampPower(mode'.power)

\* C24 (as stated): in each Demo step, accel changes sign iff power at the
\* start of the step is above MAX or below MIN, and angle changes sign iff
\* power at the start of the step is below MIN; then power is incremented by
\* accel and (theta_e + angle, power) is commanded.  Hence the torque
\* direction reverses exactly once per ramp cycle, at the low (zero) end and
\* never at the high end.
C24_EveryDemoStepRamps == [][DemoStepTaken => DemoRamps]_vars

\* C24 (amended): so does each Demo step whose encoder read succeeds; a Demo
\* step whose read fails, and a supervisor step that does not reach the
\* mode, changes nothing of the ramp and commands nothing.
C24_DemoStepRampsOnceRead ==
  /\ [][DemoStepTaken /\ obs'.encoder # -1 => DemoRamps]_vars
  /\ [][DemoStepTaken /\ obs'.encoder = -1
          => mode' = mode /\ obs'.commands = <<>> /\ ~obs'.ok]_vars
  /\ [][mode.tag = "Demo" /\ ~DemoStepTaken => mode' = mode]_vars

\* A Demo step has just reversed the direction at the low end of the ramp
C24_Witness ==
  /\ obs.call = "step"
  /\ obs.ok
  /\ mode.tag = "Demo"
  /\ mode.angle = -PI1_2
  /\ mode.accel = ACCEL
  /\ mode.power = MIN

----------------------------------------------------------------------------
(* Properties of the happy path of calibration (SpecHappy)                 *)

\* The angle read_absolute_angle makes of the word the encoder is held at
HeldAngle(word, p) ==
  norm_rads(raw_to_rads(word % (POS_MAX_U16 + 1)) - p.offset)

\* The step now taken leaves the settle phase ph
Leaves(ph) ==
  /\ mode.tag = "Calibrate"
  /\ mode.phase = ph
  /\ mode'.tag = "Calibrate" => mode'.phase # ph

\* What CalibrationMode::step records as backward_extent when it settles on
\* the word the encoder is held at
BackwardExtentIsHeld ==
  (/\ mode.tag = "Calibrate"
   /\ mode.phase = "BackwardSettle"
   /\ mode.settler.samples_collected >= 1)
    => \A in \in HappyInputs(mode, position_sensor) :
         \A c \in {CalibrationStep(mode, Env(drv_8305, magnet_controller,
                                             position_sensor), in)} :
           c.mode.phase = "Done"
             => c.mode.backward_extent = HeldAngle(obs.encoder, position_sensor)

\* C25: calibration happy path: if every warnings snapshot is zero, no
\* peripheral operation fails, and the encoder reading is held steady during
\* each settle phase, then the program eventually leaves every calibration
\* phase in order and reaches Mode::Demo, with zero, forward_extent and
\* backward_extent each equal to the value held during the corresponding
\* settle phase.
C25_HappyPathReachesDemo ==
  /\ <>(mode.tag = "Demo")
  /\ [][mode'.tag = "Calibrate" /\ mode.tag = "Start"
          => mode'.phase = "Start"]_vars
  /\ [][mode.tag = "Calibrate" /\ mode'.tag = "Calibrate"
          => PhaseIndex(mode'.phase) - PhaseIndex(mode.phase) \in {0, 1}]_vars
  /\ [][mode'.tag = "Demo" /\ mode.tag # "Demo"
          => mode.tag = "Calibrate" /\ mode.phase = "BackwardSettle"]_vars
  /\ [][Leaves("Settle")
          => /\ mode'.zero = HeldAngle(obs'.encoder, position_sensor)
             /\ mode'.zero = position_sensor'.offset
             /\ mode.settler.samples_collected >= 1
                  => obs'.encoder = obs.encoder]_vars
  /\ [][Leaves("ForwardSettle")
          => /\ mode'.forward_extent = HeldAngle(obs'.encoder, position_sensor)
             /\ mode.settler.samples_collected >= 1
                  => obs'.encoder = obs.encoder]_vars
  /\ []BackwardExtentIsHeld
  /\ [](mode.tag = "Calibrate" => obs.ok /\ ~recovery_mode)
  /\ [](pc \in {"should_continue", "step"} /\ (pc = "step" => StepReturns))

\* Demo has been reached with the encoder's offset set to a held value
\* other than 0
C25_Witness ==
  /\ mode.tag = "Demo"
  /\ obs.call = "step"
  /\ obs.ok
  /\ position_sensor.offset = 2
  /\ out = <<"Found backward extent at {} radians">>

----------------------------------------------------------------------------
(* Properties of the Demo ramp on the happy path (SpecHappy)               *)

\* The two values at which the ramp turns round
UpperTurn == mode.tag = "Demo" /\ mode.power = MAX + ACCEL /\ mode.accel = ACCEL
LowerTurn == mode.tag = "Demo" /\ mode.power = MIN - ACCEL /\ mode.accel = -ACCEL

\* In no Demo state does power head further away from [MIN, MAX]
TurnsBack ==
  mode.tag = "Demo" =>
    /\ mode.accel \in {ACCEL, -ACCEL}
    /\ mode.power >= MIN - ACCEL
    /\ mode.power <= MAX + ACCEL
    /\ mode.power > MAX => mode.accel = ACCEL
    /\ mode.power < MIN => mode.accel = -ACCEL

\* C26: Demo never gets stuck: with zero warnings and no errors, Demo's
\* power ramp oscillates forever: power reaches its upper turning point and
\* its lower turning point infinitely often and the angle sign flips
\* infinitely often; there is no reachable Demo state from which power moves
\* monotonically away from [MIN, MAX] (the accel flip never re-fires on
\* consecutive steps so as to cancel itself).
C26_DemoOscillatesForever ==
  /\ []<>UpperTurn
  /\ []<>LowerTurn
  /\ []<>(mode.tag = "Demo" /\ mode.angle = PI1_2)
  /\ []<>(mode.tag = "Demo" /\ mode.angle = -PI1_2)
  /\ []TurnsBack
  /\ [][mode.tag = "Demo" /\ mode'.accel # mode.accel
          => /\ mode'.accel = -mode.accel
             /\ mode'.power >= MIN
             /\ mode'.power <= MAX]_vars
  /\ [][mode.tag = "Demo" /\ pc = "step" => mode' # mode /\ obs'.ok]_vars

\* The ramp is at its upper turning point for the second time, with the
\* angle reversed at the lower one
C26_Witness ==
  /\ UpperTurn
  /\ mode.angle = -PI1_2
  /\ obs.call = "step"
  /\ obs.ok

----------------------------------------------------------------------------
(* Properties of the Mode variant (SpecRunner)                             *)

\* bldc.rs Mode, in declaration order
ModeOrder == <<"Start", "Calibrate", "Demo">>

ModeIndex(tag) == CHOOSE i \in 1..Len(ModeOrder) : ModeOrder[i] = tag

\* C27: the Mode variant is monotone over any execution: it only moves
\* Start -> Calibrate -> Demo; once Calibrate is installed the mode is never
\* Start again, once Demo is installed the mode is never Calibrate again
\* (calibration is never re-run), and neither recovery episodes nor safemode
\* change the Mode variant.
C27_ModeVariantMonotone ==
  /\ [][ModeIndex(mode'.tag) - ModeIndex(mode.tag) \in {0, 1}]_vars
  /\ [][mode.tag = "Calibrate" => mode'.tag # "Start"]_vars
  /\ [][mode.tag = "Demo" => mode'.tag = "Demo"]_vars
  /\ [][pc = "step" /\ (recovery_mode' \/ ~obs'.mode_stepped)
          => mode' = mode]_vars
  /\ [][pc # "step" => mode' = mode]_vars

\* A recovery step has just been taken in Demo and left it installed
C27_Witness ==
  /\ obs.call = "step"
  /\ obs.ok
  /\ recovery_mode
  /\ ~obs.mode_stepped
  /\ mode.tag = "Demo"
  /\ mode.power > MIN

----------------------------------------------------------------------------
(* Properties of the encoder's conversion to radians (Spec)                *)

\* The raw sample read_absolute_angle takes from the word the encoder
\* answered in the last step
RawSample == obs.encoder % (POS_MAX_U16 + 1)

\* C28: for every encoder reply, the raw sample is the reply masked to its
\* low 14 bits, r in [0, 2^14 - 1], and the pre-offset angle is
\* r / 2^14 * 2 pi, which is therefore strictly less than 2 pi for every r
\* (the maximum raw value does not map to a full turn).
C28_RawAngleBelowFullTurn ==
  obs.call = "step" /\ obs.encoder # -1 =>
    /\ RawSample \in 0..POS_MAX_U16
    /\ raw_to_rads(RawSample) = (RawSample * PI2) \div (POS_MAX_U16 + 1)
    /\ raw_to_rads(RawSample) < PI2

----------------------------------------------------------------------------
(* Properties of send() on the two SPI devices (SpecSpi)                   *)

\* The read() now returning changed the device's last_command only to the
\* command of a frame that completed its busy-wait
CommandOfCompletedFrame(dev, call) ==
  dev'.last_command # dev.last_command =>
    /\ obs'.call = call
    /\ obs'.frames[1].ok
    /\ dev'.last_command = Read(obs'.register)

\* C29: chip-select is deasserted (high) whenever no SPI frame is in flight:
\* after any call to send() on the gate driver or the encoder returns, with
\* a value or with an error from the busy-wait, the chip-select line is
\* high, and last_command is updated only when the frame completed
\* successfully.
C29_ChipSelectHighBetweenFrames ==
  /\ [](drv_8305.csn /\ position_sensor.csn)
  /\ [][CommandOfCompletedFrame(drv_8305, "Drv8305::read")]_vars
  /\ [][CommandOfCompletedFrame(position_sensor, "PositionSensor::read")]_vars

=============================================================================
